---- MODULE Spec2Model ----
(***************************************************************************)
(* Outbound lifecycle of utp-core, modelled on the WARP outbound           *)
(* (extensions/warp/outbound.go); the SSH, obfs, Psiphon, OpenVPN and      *)
(* legacy-VPN outbounds repeat the same connectAndRoute / Close bodies.    *)
(* Route and Close take no lock, so every read and write of the            *)
(* `connection` field is a step of its own and callers interleave freely.  *)
(* The retry helper (utils Retry.Do) is modelled as a second state machine *)
(* with its own specification, SpecRetry.                                  *)
(***************************************************************************)
EXTENDS Integers, Sequences, FiniteSets, TLC

\* ------------------------------------------------------------------ bounds
NumThreads == 2          \* goroutines calling Route / Close on one outbound
MaxCalls == 3            \* Route and Close calls made on the outbound in all
MaxRetryCount == 3       \* largest MaxAttempts handed to NewRetry
MaxPsRoutes == 2         \* Route calls made on the Psiphon outbound
MaxMetricsCalls == 2     \* calls made on the Metrics value in all
MaxClock == 3            \* ticks of the clock
MaxConnCalls == 3        \* Read, Write and IsIdle calls made on the Connection
MaxTimeoutCalls == 3     \* deadline applications, reads and writes on the connection
MaxListLen == 2          \* longest inbounds / outbounds list in a configuration file
MaxOvpnCalls == 3        \* Route and Close calls made on the OpenVPN outbound in all
MaxSharedCalls == 3      \* Read, Write and IsIdle calls made on the shared Connection in all

Threads == 1..NumThreads

\* Go's nil: NilErr for an error value, NilPtr for a connection pointer
\* (transports are numbered from 1 in dial order)
NilErr == "nil"
NilPtr == 0

\* ------------------------------------------------- configuration (WARPConfig)
DefaultServer == "162.159.192.1"
DefaultPort == 2408
DefaultMode == "wireguard"

\* The ids init() registers, and the options blobs a caller may hand in:
\* "none" is options.Options == nil, "undecodable" a blob common.Decode rejects.
ProtocolIds == {"warp", "warp-plus", "warp-tls"}

Blob(server, port, mode, license, team) ==
    [kind |-> "map", Server |-> server, Port |-> port, Mode |-> mode,
     LicenseKey |-> license, TeamID |-> team]

ZeroConfig == Blob("", 0, "", "", "")

OptionBlobs ==
    {[ZeroConfig EXCEPT !.kind = "none"],
     [ZeroConfig EXCEPT !.kind = "undecodable"],
     Blob("s", 51820, "warp+", "", ""),
     Blob("s", 51820, "warp+", "k", ""),
     Blob("", 0, "team", "", "t"),
     Blob("s", 51820, "bogus", "", "")}

\* if options.Options != nil { common.Decode(options.Options, &config) }
Decode(options) ==
    IF options.kind = "none" THEN [err |-> NilErr, config |-> ZeroConfig]
    ELSE IF options.kind = "undecodable" THEN [err |-> "decode error", config |-> ZeroConfig]
    ELSE [err |-> NilErr, config |-> options]

\* the three defaults NewWARPOutbound fills in
ApplyDefaults(c) ==
    [c EXCEPT !.Server = IF c.Server = "" THEN DefaultServer ELSE c.Server,
              !.Port   = IF c.Port = 0 THEN DefaultPort ELSE c.Port,
              !.Mode   = IF c.Mode = "" THEN DefaultMode ELSE c.Mode]

\* NewWARPOutbound / NewWARPPlusOutbound / NewWARPTLSOutbound as functions of
\* the registered id and the options: the result is (config, err).
NewOutboundResult(id, options) ==
    LET d == Decode(options)
        base == ApplyDefaults(d.config)
    IN  IF d.err # NilErr THEN [err |-> d.err, config |-> ZeroConfig]
        ELSE IF id = "warp-plus" THEN [err |-> NilErr, config |-> [base EXCEPT !.Mode = "warp+"]]
        ELSE IF id = "warp-tls" THEN [err |-> NilErr, config |-> [base EXCEPT !.Mode = "wireguard"]]
        ELSE [err |-> NilErr, config |-> base]

\* the switch of createConnection: which create*Connection runs for a mode
Strategy(mode) ==
    CASE mode = "wireguard" -> "wireguard"
      [] mode = "warp+"     -> "warp+"
      [] mode = "team"      -> "team"
      [] OTHER              -> "wireguard"

\* the error create*Connection returns before dialing, or NilErr
PreDialError(c) ==
    CASE Strategy(c.Mode) = "warp+" /\ c.LicenseKey = "" -> "license key required for WARP+"
      [] Strategy(c.Mode) = "team" /\ c.TeamID = ""      -> "team ID required for team mode"
      [] OTHER -> NilErr

\* ---------------------------------------------- configuration (PsiphonConfig)
PsDefaultServer == "entry.psiphon3.com"
PsDefaultPort == 443
PsDefaultProtocol == "meek"
PsDefaultRetryCount == 3
PsDefaultRetryDelay == 5

PsiphonIds == {"psiphon", "psiphon-ssh", "psiphon-quic-go", "psiphon-meek", "psiphon-obfs3"}

PsBlob(server, port, protocol, retryCount, retryDelay, fronting) ==
    [kind |-> "map", Server |-> server, Port |-> port, Protocol |-> protocol,
     RetryCount |-> retryCount, RetryDelay |-> retryDelay, FrontingDomain |-> fronting]

PsZeroConfig == PsBlob("", 0, "", 0, 0, "")

PsOptionBlobs ==
    {[PsZeroConfig EXCEPT !.kind = "none"], [PsZeroConfig EXCEPT !.kind = "undecodable"]}
    \cup {PsBlob("s", 8080, proto, rc, rc, "") :
             proto \in {"", "ssh", "meek", "quic-go", "obfs3", "bogus"}, rc \in {0, 2}}
    \cup {PsBlob("", 0, "fronting-meek", 4, 1, f) : f \in {"", "front.example"}}

PsDecode(options) ==
    IF options.kind = "none" THEN [err |-> NilErr, config |-> PsZeroConfig]
    ELSE IF options.kind = "undecodable" THEN [err |-> "decode error", config |-> PsZeroConfig]
    ELSE [err |-> NilErr, config |-> options]

\* the five defaults NewPsiphonOutbound fills in
PsApplyDefaults(c) ==
    [c EXCEPT !.Server = IF c.Server = "" THEN PsDefaultServer ELSE c.Server,
              !.Port = IF c.Port = 0 THEN PsDefaultPort ELSE c.Port,
              !.Protocol = IF c.Protocol = "" THEN PsDefaultProtocol ELSE c.Protocol,
              !.RetryCount = IF c.RetryCount = 0 THEN PsDefaultRetryCount ELSE c.RetryCount,
              !.RetryDelay = IF c.RetryDelay = 0 THEN PsDefaultRetryDelay ELSE c.RetryDelay]

\* the protocol the per-id constructors force after NewPsiphonOutbound ran
PsForcedProtocol(id, protocol) ==
    CASE id = "psiphon-ssh"     -> "ssh"
      [] id = "psiphon-quic-go" -> "quic-go"
      [] id = "psiphon-meek"    -> "meek"
      [] id = "psiphon-obfs3"   -> "obfs3"
      [] OTHER                  -> protocol

NewPsiphonResult(id, options) ==
    LET d == PsDecode(options)
        base == PsApplyDefaults(d.config)
    IN  IF d.err # NilErr THEN [err |-> d.err, config |-> PsZeroConfig]
        ELSE [err |-> NilErr,
              config |-> [base EXCEPT !.Protocol = PsForcedProtocol(id, base.Protocol)]]

\* the switch of PsiphonBaseOutbound.createConnection; default is meek
PsStrategy(protocol) ==
    CASE protocol = "ssh"           -> "ssh"
      [] protocol = "meek"          -> "meek"
      [] protocol = "fronting-meek" -> "fronting-meek"
      [] protocol = "quic-go"       -> "quic-go"
      [] protocol = "obfs3"         -> "obfs3"
      [] OTHER                      -> "meek"

\* the address each create*Connection dials
PsDialAddress(c) ==
    CASE PsStrategy(c.Protocol) = "meek" -> <<"meek.azureedge.net", 443>>
      [] PsStrategy(c.Protocol) = "fronting-meek" ->
            <<IF c.FrontingDomain = "" THEN "cloudflare.com" ELSE c.FrontingDomain, 443>>
      [] OTHER -> <<c.Server, c.Port>>

\* only the SSH handshake does I/O (it writes the version line); the meek,
\* fronting-meek, QUIC and obfs3 handshakes return nil unconditionally
PsHandshakeCanFail(strategy) == strategy = "ssh"

\* ------------------------- configuration of the other protocol families
\* SSHConfig, ObfsConfig, LegacyVPNConfig, ExperimentalConfig, OpenVPNConfig
\* and DNSConfig share this shape: Protocol is the selector field (SSHConfig
\* calls it Method), Present is the set of optional string or list fields
\* that are non-empty, and the value of such a field is written as its name.
GBlob(server, port, protocol, timeout, proxyMethod, present) ==
    [kind |-> "map", Server |-> server, Port |-> port, Protocol |-> protocol,
     Timeout |-> timeout, ProxyMethod |-> proxyMethod, Present |-> present]

GZeroConfig == GBlob("", 0, "", 0, "", {})

Families == {"warp", "psiphon", "ssh", "obfs", "legacy", "experimental", "openvpn", "dns"}

SSHIds == {"ssh-direct", "ssh-proxy", "ssh-payload", "ssh-proxy-payload", "ssh-tls",
           "ssh-tls-proxy", "ssh-tls-payload", "ssh-tls-proxy-payload", "ssh-dnstt"}
ObfsIds == {"obfs4", "meek", "naiveproxy", "udp2raw", "cloak", "fteproxy", "scramblesuit",
            "snowflake"}
LegacyIds == {"l2tp", "l2tp-ipsec", "ikev2", "ikev2-ipsec", "sstp", "pptp", "gre",
              "softether"}
ExperimentalIds == {"masque", "ohhttp", "webrtc-dc", "doh3", "odoh", "zerotier", "nebula",
                    "n2n", "mqtt-vpn", "icmp-vpn", "smtp-vpn"}
OpenVPNIds == {"openvpn"}
DNSIds == {"dns-doh", "dns-dot", "dns-dnscrypt", "dns-doq", "dns-slowdns", "dns-tcp", "dns-udp"}

IdsOf(family) ==
    CASE family = "warp"         -> ProtocolIds
      [] family = "psiphon"      -> PsiphonIds
      [] family = "ssh"          -> SSHIds
      [] family = "obfs"         -> ObfsIds
      [] family = "legacy"       -> LegacyIds
      [] family = "experimental" -> ExperimentalIds
      [] family = "openvpn"      -> OpenVPNIds
      [] family = "dns"          -> DNSIds

\* the values the switch of each family's dispatch names
SSHMethods == {"direct", "proxy", "payload", "proxy-payload", "tls", "tls-proxy",
               "tls-payload", "tls-proxy-payload", "dnstt"}
DNSProtocols == {"doh", "dot", "dnscrypt", "doq", "slowdns", "tcp", "udp"}

KnownSelectors(family) ==
    CASE family = "ssh"          -> SSHMethods
      [] family = "obfs"         -> ObfsIds
      [] family = "legacy"       -> LegacyIds
      [] family = "experimental" -> ExperimentalIds
      [] family = "openvpn"      -> {"tcp", "udp"}
      [] family = "dns"          -> DNSProtocols

\* the optional fields a family's connection paths read
OptionalFields(family) ==
    CASE family = "ssh"          -> {{}, {"Payload"}, {"DNSOverHTTPS"}, {"ProxyServer", "Payload"}}
      [] family = "obfs"         -> {{}, {"FrontingDomain"}}
      [] family = "legacy"       -> {{}, {"SSTPUrl"}}
      [] family = "experimental" -> {{}, {"OHTTPProxy", "ODoHTargets", "ZeroTierNetworkID"},
                                     {"NebulaConfig", "N2NCommunity", "DoH3Server"}}
      [] family = "openvpn"      -> {{}}
      [] family = "dns"          -> {{}, {"URL"}}

OutOfRangePort == 70000

GOptionBlobs(family) ==
    {[GZeroConfig EXCEPT !.kind = "none"], [GZeroConfig EXCEPT !.kind = "undecodable"]}
    \cup {GBlob(a[1], a[2], protocol, a[3], proxyMethod, present) :
            a \in {<<"", 0, 0>>, <<"s", 8080, 10>>, <<"s", OutOfRangePort, 0>>},
            protocol \in KnownSelectors(family) \cup {"", "bogus"},
            proxyMethod \in IF family = "ssh" THEN {"http", "socks5"} ELSE {""},
            present \in OptionalFields(family)}

OptionsOf(family) ==
    CASE family = "warp"    -> OptionBlobs
      [] family = "psiphon" -> PsOptionBlobs
      [] OTHER              -> GOptionBlobs(family)

GDecode(options) ==
    IF options.kind = "none" THEN [err |-> NilErr, config |-> GZeroConfig]
    ELSE IF options.kind = "undecodable" THEN [err |-> "decode error", config |-> GZeroConfig]
    ELSE [err |-> NilErr, config |-> options]

\* NewSSHDirectOutbound and the eight constructors that wrap it; NewObfs4Outbound
\* and the seven that wrap it; NewDoHOutbound and the six that wrap it: the
\* decoded config is stored as it is
NewPlainResult(id, options) ==
    LET d == GDecode(options)
    IN  IF d.err # NilErr THEN [err |-> d.err, config |-> GZeroConfig]
        ELSE [err |-> NilErr, config |-> d.config]

\* NewOpenVPNOutbound: the only check is that an options blob was given
NewOpenVPNResult(id, options) ==
    IF options.kind = "none" THEN [err |-> "missing config", config |-> GZeroConfig]
    ELSE NewPlainResult(id, options)

LegacyDefaultServer == "127.0.0.1"
LegacyDefaultPort == 1701
LegacyDefaultTimeout == 30

\* NewL2TPOutbound, and the seven constructors that wrap it and then set Protocol
NewLegacyResult(id, options) ==
    LET d == GDecode(options)
        c == d.config
        base == [c EXCEPT !.Server = IF c.Server = "" THEN LegacyDefaultServer ELSE c.Server,
                          !.Port = IF c.Port = 0 THEN LegacyDefaultPort ELSE c.Port,
                          !.Timeout = IF c.Timeout = 0 THEN LegacyDefaultTimeout ELSE c.Timeout]
    IN  IF d.err # NilErr THEN [err |-> d.err, config |-> GZeroConfig]
        ELSE [err |-> NilErr,
              config |-> IF id = "l2tp" THEN base ELSE [base EXCEPT !.Protocol = id]]

MASQUEDefaultServer == "masque.example.com"
MASQUEDefaultPort == 443
MASQUEDefaultTimeout == 30

\* NewMASQUEOutbound, and the ten constructors that wrap it and then set Protocol
NewExperimentalResult(id, options) ==
    LET d == GDecode(options)
        c == d.config
        base == [c EXCEPT !.Server = IF c.Server = "" THEN MASQUEDefaultServer ELSE c.Server,
                          !.Port = IF c.Port = 0 THEN MASQUEDefaultPort ELSE c.Port,
                          !.Timeout = IF c.Timeout = 0 THEN MASQUEDefaultTimeout ELSE c.Timeout,
                          !.Present = @ \cup {"MASQUERequestPath", "MASQUEResponsePath"}]
    IN  IF d.err # NilErr THEN [err |-> d.err, config |-> GZeroConfig]
        ELSE [err |-> NilErr,
              config |-> IF id = "masque" THEN base ELSE [base EXCEPT !.Protocol = id]]

\* the constructor registered under id, applied to options: (config, err)
Construct(family, id, options) ==
    CASE family = "warp"         -> NewOutboundResult(id, options)
      [] family = "psiphon"      -> NewPsiphonResult(id, options)
      [] family = "legacy"       -> NewLegacyResult(id, options)
      [] family = "experimental" -> NewExperimentalResult(id, options)
      [] family = "openvpn"      -> NewOpenVPNResult(id, options)
      [] OTHER                   -> NewPlainResult(id, options)
\* the value of an optional field, or dflt when the field is empty
FieldOr(c, field, dflt) == IF field \in c.Present THEN field ELSE dflt

\* which connection path the dispatch switch of a family runs for a config;
\* "none" where the switch's default returns an error
StrategyOf(family, c) ==
    CASE family = "warp"    -> Strategy(c.Mode)
      [] family = "psiphon" -> PsStrategy(c.Protocol)
      [] family = "ssh"     -> IF c.Protocol \in SSHMethods THEN c.Protocol ELSE "direct"
      [] family = "legacy"  -> IF c.Protocol \in LegacyIds THEN c.Protocol ELSE "l2tp"
      [] family = "openvpn" -> IF c.Protocol = "tcp" THEN "tcp" ELSE "udp"
      [] OTHER -> IF c.Protocol \in KnownSelectors(family) THEN c.Protocol ELSE "none"

UnsupportedProtocol == "unsupported protocol"

\* the option a connection path insists on before it dials, or "" for none
RequiredField(family, strategy) ==
    CASE family = "ssh" /\ strategy = "dnstt"             -> "DNSOverHTTPS"
      [] family = "experimental" /\ strategy = "ohhttp"   -> "OHTTPProxy"
      [] family = "experimental" /\ strategy = "odoh"     -> "ODoHTargets"
      [] family = "experimental" /\ strategy = "zerotier" -> "ZeroTierNetworkID"
      [] family = "experimental" /\ strategy = "nebula"   -> "NebulaConfig"
      [] family = "experimental" /\ strategy = "n2n"      -> "N2NCommunity"
      [] OTHER -> ""

\* the error the first Route call's dispatch returns before any dial, or NilErr
DispatchError(family, c) ==
    LET strategy == StrategyOf(family, c) IN
    IF family = "warp" THEN PreDialError(c)
    ELSE IF family = "psiphon" THEN NilErr
    ELSE IF strategy = "none" THEN UnsupportedProtocol
    ELSE IF RequiredField(family, strategy) \notin c.Present \cup {""}
         THEN "required option missing"
    ELSE NilErr

\* SSH-over-DNSTT and Snowflake hand back a connection without dialing
Dials(family, strategy) ==
    ~ (\/ family = "ssh" /\ strategy = "dnstt"
       \/ family = "obfs" /\ strategy = "snowflake")

ProxyPort == 3128

\* the host and port of the address the connection path dials
DialAddress(family, c) ==
    LET strategy == StrategyOf(family, c) IN
    CASE family = "psiphon" -> PsDialAddress(c)
      [] family = "ssh" /\ strategy \in {"proxy", "proxy-payload", "tls-proxy",
                                         "tls-proxy-payload"} ->
            IF "ProxyServer" \in c.Present THEN <<"ProxyServer", ProxyPort>> ELSE <<"", 0>>
      [] family = "obfs" /\ strategy = "meek" -> <<FieldOr(c, "FrontingDomain", ""), 443>>
      [] family = "legacy" /\ strategy \in {"ikev2", "ikev2-ipsec"} ->
            <<c.Server, IF c.Port = 0 THEN 500 ELSE c.Port>>
      [] family = "legacy" /\ strategy = "sstp" -> <<FieldOr(c, "SSTPUrl", c.Server), 443>>
      [] family = "legacy" /\ strategy = "pptp" -> <<c.Server, 1723>>
      [] family = "legacy" /\ strategy = "softether" -> <<c.Server, 992>>
      [] family = "experimental" /\ strategy = "doh3" ->
            <<FieldOr(c, "DoH3Server", c.Server), 443>>
      [] family = "experimental" /\ strategy = "odoh" ->
            <<FieldOr(c, "ODoHResolver", c.Server), 443>>
      [] family = "experimental" /\ strategy = "zerotier" -> <<c.Server, 9993>>
      [] family = "experimental" /\ strategy = "smtp-vpn" ->
            <<FieldOr(c, "SMTPServer", c.Server), 587>>
      [] family = "dns" /\ strategy = "doh" /\ "URL" \in c.Present -> <<"URL", 443>>
      [] OTHER -> <<c.Server, c.Port>>

\* what a connection path does to the dialed transport before it returns it
PostDialStages(family, c) ==
    LET strategy == StrategyOf(family, c)
        payload == IF "Payload" \in c.Present THEN <<"payload">> ELSE <<>>
    IN  CASE family = "ssh" ->
               (CASE strategy = "proxy"             -> <<"proxyhello">>
                  [] strategy = "payload"           -> payload
                  [] strategy = "proxy-payload"     -> <<"proxyhello">> \o payload
                  [] strategy = "tls"               -> <<"tls">>
                  [] strategy = "tls-proxy"         -> <<"proxyhello", "tls">>
                  [] strategy = "tls-payload"       -> <<"tls">> \o payload
                  [] strategy = "tls-proxy-payload" -> <<"proxyhello", "tls">> \o payload
                  [] OTHER                          -> <<>>) \o <<"handshake">>
          [] family = "obfs" /\ strategy \in {"meek", "udp2raw", "snowflake"} -> <<>>
          [] family = "experimental" /\ strategy = "doh3" -> <<>>
          [] family = "dns" -> <<"exchange">>
          [] OTHER -> <<"handshake">>

\* whether the stage does I/O whose error the code looks at
StageCanFail(family, c, stage) ==
    LET strategy == StrategyOf(family, c) IN
    CASE stage = "proxyhello" -> c.ProxyMethod = "http"
      [] stage = "handshake" ->
            \/ family = "warp" /\ strategy = "wireguard"
            \/ family = "psiphon" /\ strategy = "ssh"
            \/ family = "ssh" /\ strategy # "dnstt"
            \/ family = "legacy" /\ strategy = "sstp"
      [] OTHER -> TRUE

\* --------------------------------------------------------------- registry
\* the register.Outbound(id, constructor) calls of each package's init(), in
\* source order
InitRegistrations(pkg) ==
    CASE pkg = "warp" ->
          <<<<"warp", "NewWARPOutbound">>, <<"warp-plus", "NewWARPPlusOutbound">>,
            <<"warp-tls", "NewWARPTLSOutbound">>>>
      [] pkg = "obfs" ->
          <<<<"obfs4", "NewObfs4Outbound">>, <<"meek", "NewMeekOutbound">>,
            <<"naiveproxy", "NewNaiveProxyOutbound">>,
            <<"udp2raw", "NewUDP2RAWOutbound">>, <<"cloak", "NewCloakOutbound">>,
            <<"fteproxy", "NewFTEProxyOutbound">>,
            <<"scramblesuit", "NewScrambleSuitOutbound">>,
            <<"snowflake", "NewSnowflakeOutbound">>>>
      [] pkg = "httpinject" ->
          <<<<"httpinject", "NewHTTPInjectOutbound">>,
            <<"ws-inject", "NewWSInjectOutbound">>,
            <<"http-connect", "NewHTTPConnectOutbound">>,
            <<"http-fronting", "NewHTTPFrontingOutbound">>,
            <<"http-payload", "NewHTTPPayloadOutbound">>,
            <<"chunked-http", "NewChunkedHTTPOutbound">>>>
      [] pkg = "psiphon" ->
          <<<<"psiphon", "NewPsiphonOutbound">>,
            <<"psiphon-ssh", "NewPsiphonSSHOutbound">>,
            <<"psiphon-quic-go", "NewPsiphonQuicOutbound">>,
            <<"psiphon-meek", "NewPsiphonMeekOutbound">>,
            <<"psiphon-obfs3", "NewPsiphonObfs3Outbound">>>>
      [] pkg = "legacyvpn" ->
          <<<<"l2tp", "NewL2TPOutbound">>,
            <<"l2tp-ipsec", "NewL2TPIPsecOutbound">>,
            <<"ikev2", "NewIKEv2Outbound">>,
            <<"ikev2-ipsec", "NewIKEv2IPsecOutbound">>,
            <<"sstp", "NewSSTPOutbound">>, <<"pptp", "NewPPTPOutbound">>,
            <<"gre", "NewGREOutbound">>, <<"softether", "NewSoftEtherOutbound">>>>
      [] pkg = "dns" ->
          <<<<"dns-doh", "NewDoHOutbound">>, <<"dns-dot", "NewDoTOutbound">>,
            <<"dns-dnscrypt", "NewDNSCryptOutbound">>,
            <<"dns-doq", "NewDoQOutbound">>,
            <<"dns-slowdns", "NewSlowDNSOutbound">>,
            <<"dns-tcp", "NewDNSTCPOutbound">>, <<"dns-udp", "NewDNSUDPOutbound">>>>
      [] pkg = "experimental" ->
          <<<<"masque", "NewMASQUEOutbound">>, <<"ohhttp", "NewOHTTPOutbound">>,
            <<"webrtc-dc", "NewWebRTCDataChannelOutbound">>,
            <<"doh3", "NewDoH3Outbound">>, <<"odoh", "NewODoHOutbound">>,
            <<"zerotier", "NewZeroTierOutbound">>,
            <<"nebula", "NewNebulaOutbound">>, <<"n2n", "NewN2NOutbound">>,
            <<"mqtt-vpn", "NewMQTTVPNOutbound">>,
            <<"icmp-vpn", "NewICMPVPNOutbound">>,
            <<"smtp-vpn", "NewSMTPVPNOutbound">>>>
      [] pkg = "stealth" ->
          <<<<"steganographic", "NewSteganographicOutbound">>,
            <<"icmp-tunnel", "NewICMPTunnelOutbound">>,
            <<"dns-tunnel", "NewDNSTunnelOutbound">>,
            <<"email-tunnel", "NewEmailTunnelOutbound">>,
            <<"image-steganography", "NewImageSteganographyOutbound">>,
            <<"audio-steganography", "NewAudioSteganographyOutbound">>,
            <<"carrier-steganography", "NewCarrierSteganographyOutbound">>>>
      [] pkg = "openvpn" ->
          <<<<"openvpn", "NewOpenVPNOutbound">>>>
      [] pkg = "ssh" ->
          <<<<"ssh-direct", "NewSSHDirectOutbound">>,
            <<"ssh-proxy", "NewSSHProxyOutbound">>,
            <<"ssh-payload", "NewSSHPayloadOutbound">>,
            <<"ssh-proxy-payload", "NewSSHProxyPayloadOutbound">>,
            <<"ssh-tls", "NewSSHTLSOutbound">>,
            <<"ssh-tls-proxy", "NewSSHTLSProxyOutbound">>,
            <<"ssh-tls-payload", "NewSSHTLSPayloadOutbound">>,
            <<"ssh-tls-proxy-payload", "NewSSHTLSProxyPayloadOutbound">>,
            <<"ssh-dnstt", "NewSSHDNSTTOutbound">>>>

Packages == {"warp", "obfs", "httpinject", "psiphon", "legacyvpn", "dns", "experimental", "stealth", "openvpn", "ssh"}

\* runService: outbound.Register(outboundRegistry, "psiphon", psiphon.NewOutbound)
ServiceRegistrations == <<<<"psiphon", "NewOutbound">>>>

\* the constructors a sequence of registration calls binds to id, in call order
ConstructorsFor(calls, id) ==
    LET IsId(call) == call[1] = id
        hits == SelectSeq(calls, IsId)
    IN  [i \in 1..Len(hits) |-> hits[i][2]]

RegisteredIds ==
    UNION {{InitRegistrations(pkg)[i][1] : i \in DOMAIN InitRegistrations(pkg)} :
             pkg \in Packages}

\* ----------------------------------------------------------------- Metrics
\* bytesSent and bytesReceived are uint64; a value is held as four 16-bit
\* limbs, least significant first, so that sums wrap at 2^64 as they do in Go
LimbBits == 16
LimbBase == 2 ^ LimbBits
LimbCount == 4

Zero64 == [i \in 1..LimbCount |-> 0]

\* uint64(n) for an int n with |n| < 2^16: a negative n becomes 2^64 + n
ToUint64(n) ==
    IF n >= 0 THEN [i \in 1..LimbCount |-> IF i = 1 THEN n ELSE 0]
    ELSE [i \in 1..LimbCount |-> IF i = 1 THEN LimbBase + n ELSE LimbBase - 1]

\* a + b on uint64: the carry out of the top limb is dropped
Add64(a, b) ==
    LET Carry[i \in 0..LimbCount] ==
            IF i = 0 THEN 0 ELSE (a[i] + b[i] + Carry[i - 1]) \div LimbBase
    IN  [i \in 1..LimbCount |-> (a[i] + b[i] + Carry[i - 1]) % LimbBase]

\* a < b on uint64
Less64(a, b) ==
    \E i \in 1..LimbCount :
        /\ a[i] < b[i]
        /\ \A j \in (i + 1)..LimbCount : a[j] = b[j]

\* the int arguments callers pass to AddBytesSent and AddBytesReceived
ByteAmounts == {-1, 5}

\* the calls a goroutine can make: a method and its argument (0 where the
\* method takes none)
MetricsCalls ==
    {[op |-> o, n |-> n] : o \in {"AddBytesSent", "AddBytesReceived"}, n \in ByteAmounts}
    \cup {[op |-> o, n |-> 0] : o \in {"IncConnections", "DecConnections"}}

\* -------------------------------------------------------------- Connection
\* what the embedded net.Conn can return from Read or Write: a byte count
\* and an error; a count above zero may come with an error (a short write,
\* or a read that hit EOF after some bytes)
StreamResults == {[n |-> n, err |-> e] : n \in 0..2, e \in {NilErr, "io error"}}

\* the durations callers pass to IsIdle, in clock ticks
Thresholds == {-1, 0, 1, 2}

\* ---------------------------------------------------------------- Timeouts
\* the durations a Timeouts value can hold, in clock ticks; 0 means not
\* configured
TimeoutValues == {0, 1, 2}

\* a deadline of a net.Conn: unset, or an instant, with the method that set it
NoDeadline == [set |-> FALSE, at |-> 0, by |-> "none"]

\* a Read or Write on a net.Conn fails with a timeout once its deadline has
\* passed
Expired(deadline, instant) == deadline.set /\ instant > deadline.at

\* ------------------------------------------------- Psiphon DialContext
\* byte strings are sequences of one-character strings; CR and LF stand for
\* the bytes 13 and 10
CRLF == <<"CR", "LF">>

\* bytes.Contains(s, sub)
Contains(s, sub) ==
    \E i \in 1..(Len(s) - Len(sub) + 1) : SubSeq(s, i, i + Len(sub) - 1) = sub

\* the bytes doHTTPHandshake looks for
SuccessMark == <<"2", "0", "0">>

HTTPVersion == <<"H", "T", "T", "P", "/", "1", ".", "1">>
StatusCodes == {<<"2", "0", "0">>, <<"4", "0", "3">>, <<"5", "0", "2">>}
ReasonPhrases == {<<"O", "K">>, <<"F", "o", "r", "b", "i", "d", "d", "e", "n">>}
HeaderBlocks == {<<>>, <<"C", "o", "n", "t", "e", "n", "t", "-", "L", "e", "n", "g", "t", "h", ":", " ", "2", "0", "0">> \o CRLF}
Bodies == {<<>>, <<"e", "r", "r", "o", "r", " ", "1", "2", "0", "0">>}

\* a server's answer to the CONNECT request: status line, headers, blank
\* line, body
HTTPResponse(code, reason, headers, body) ==
    HTTPVersion \o <<" ">> \o code \o <<" ">> \o reason \o CRLF \o headers \o CRLF \o body

\* what conn.Read can put into buf[:n]: the whole answer, or only the bytes
\* that have arrived so far
ShortReadLen == 11

ServerAnswers ==
    {[code |-> code, bytes |-> HTTPResponse(code, reason, headers, body)] :
        code \in StatusCodes, reason \in ReasonPhrases, headers \in HeaderBlocks,
        body \in Bodies}

ReadResults ==
    ServerAnswers
    \cup {[code |-> a.code, bytes |-> SubSeq(a.bytes, 1, ShortReadLen)] : a \in ServerAnswers}

\* the outcomes of doHTTPHandshake's conn.Write and conn.Read
HTTPOutcomes ==
    {[kind |-> "write error", code |-> <<>>, bytes |-> <<>>],
     [kind |-> "read error", code |-> <<>>, bytes |-> <<>>]}
    \cup {[kind |-> "read", code |-> r.code, bytes |-> r.bytes] : r \in ReadResults}

\* doHTTPHandshake's result for an outcome of its Write and Read
HTTPHandshakeError(o) ==
    CASE o.kind = "write error" -> "failed to write HTTP handshake"
      [] o.kind = "read error"  -> "failed to read HTTP handshake response"
      [] ~Contains(o.bytes, SuccessMark) -> "HTTP handshake failed, response"
      [] OTHER -> NilErr

\* the steps of DialContext in the order of the code, TLS only with UseTLS
DialOrder(useTLS) ==
    IF useTLS THEN <<"tcp", "tls", "http", "ssh", "target">>
    ELSE <<"tcp", "http", "ssh", "target">>

\* ------------------------------------------------------------ config Loader
\* the value of the "inbounds" or "outbounds" key of a JSON object: absent,
\* of a type that is no list, or a list of n entries
ListFields ==
    {[shape |-> "absent", n |-> 0], [shape |-> "wrongtype", n |-> 0]}
    \cup {[shape |-> "list", n |-> n] : n \in 0..MaxListLen}

\* the content of a configuration file: bytes that are no JSON, a JSON null,
\* a JSON array, or a JSON object with its two keys
Documents ==
    {[kind |-> k, inbounds |-> [shape |-> "absent", n |-> 0],
      outbounds |-> [shape |-> "absent", n |-> 0]] : k \in {"unparsable", "null", "array"}}
    \cup {[kind |-> "object", inbounds |-> i, outbounds |-> o] :
            i \in ListFields, o \in ListFields}

EmptyDocument ==
    [kind |-> "unparsable", inbounds |-> [shape |-> "absent", n |-> 0],
     outbounds |-> [shape |-> "absent", n |-> 0]]

\* what the path names: os.Stat reports it missing, fails otherwise, or
\* succeeds; os.ReadFile succeeds only on a readable regular file
Files ==
    {[stat |-> s, readable |-> FALSE, content |-> EmptyDocument] : s \in {"notexist", "denied", "ok"}}
    \cup {[stat |-> "ok", readable |-> TRUE, content |-> d] : d \in Documents}

\* *option.Options as Load returns it
NilOptions == [isNil |-> TRUE, Inbounds |-> 0, Outbounds |-> 0]

\* json.Unmarshal(content, &options): a syntax error or a value of the wrong
\* type is an error; null leaves the zero Options; a missing key leaves its
\* list empty
Unmarshal(d) ==
    IF d.kind \in {"unparsable", "array"}
       \/ (d.kind = "object" /\ "wrongtype" \in {d.inbounds.shape, d.outbounds.shape})
    THEN [err |-> "failed to parse configuration", options |-> NilOptions]
    ELSE [err |-> NilErr,
          options |-> [isNil |-> FALSE, Inbounds |-> d.inbounds.n, Outbounds |-> d.outbounds.n]]

\* Loader.validate
Validate(opts) ==
    IF opts.Inbounds = 0 THEN "no inbounds configured"
    ELSE IF opts.Outbounds = 0 THEN "no outbounds configured"
    ELSE NilErr

\* --------------------------------------------------------- connectViaProxy
\* the values of ProxyMethod: "http" selects HTTP CONNECT, every other value
\* the SOCKS5 branch
ProxyMethods == {"http", "socks5", ""}

\* the target addresses connectViaProxy is called with, and the proxy
\* addresses (ProxyServer, ProxyPort) a config can hold
TargetAddresses == {"s:22", "s:8080"}
ProxyAddresses == {<<"", 0>>, <<"p", ProxyPort>>}

\* what the branch writes to proxyConn, one element per Write call: the
\* CONNECT request for the address, or the two SOCKS5 messages
HelloMessages(method, address) ==
    IF method = "http" THEN <<<<"CONNECT", address, "Host", address>>>>
    ELSE <<<<5, 1, 0>>, <<5, 1, 0, 3>>>>

\* ------------------------------------------------------------------- state
VARIABLES
    built,        \* "no" before the constructor ran, then "ok" or "rejected"
    protoId,      \* the id whose registered constructor built the outbound
    config,       \* w.config
    connection,   \* w.connection, an interface value: [tab, data]
    conns,        \* every transport net.Dial returned, in dial order
    dialCalls,    \* calls of net.Dial
    hsCalls,      \* calls of perform*Handshake
    pc, op, lconn, ret,   \* per goroutine: position, call, local conn, result
    nops,         \* per goroutine: Route calls it has begun
    packet,       \* per goroutine: the packet of its Route call, <<goroutine, number>>
    afterClose,   \* per goroutine: its current Route began after a Close had returned
    raced,        \* per goroutine: a Close returned while this Route was dialing/handshaking
    routeCalls,   \* Route calls begun
    closeCalls,   \* Close calls begun
    closeRets,    \* results of the Close calls, in the order they returned
    failedErr,    \* the first connection-establishment error a Route returned, or NilErr
    crashed       \* a goroutine panicked: the process is gone

outboundVars == <<built, protoId, config, connection, conns, dialCalls, hsCalls, pc, op, lconn,
                  ret, packet, nops, afterClose, raced, routeCalls, closeCalls, closeRets,
                  failedErr, crashed>>

\* utils Retry and one call of Retry.Do
VARIABLES
    retry,        \* the Retry value: [MaxAttempts, Delay, BackoffNum, BackoffDen]
    rpc,          \* "new", "ready", then the position inside Do, then "done"
    attempt,      \* the loop variable of Do
    delay,        \* the local delay of Do, in nanoseconds
    lastErr,      \* the local lastErr of Do
    invoked,      \* calls of operation()
    failures,     \* calls of operation() that returned an error
    slept,        \* the durations passed to time.Sleep, in order
    rResult       \* what Do returned

retryVars == <<retry, rpc, attempt, delay, lastErr, invoked, failures, slept, rResult>>

\* a Psiphon outbound (PsiphonBaseOutbound) used by one goroutine
VARIABLES
    psBuilt,      \* "no" before the constructor ran, then "ok" or "rejected"
    psId,         \* the registered id whose constructor built it
    psConfig,     \* p.config
    psConnection, \* p.connection: NilPtr or the number of a transport
    psConns,      \* every transport a create*Connection dialed, in dial order
    psPc,         \* position of the caller inside connectAndRoute
    psLocal,      \* the conn local of create*Connection
    psPacket,     \* the packet of the current Route call (its number)
    psRet,        \* what the last Route call returned
    psRoutes,     \* Route calls begun
    psAttempts    \* create*Connection runs that dialed, in the current Route call

psiphonVars == <<psBuilt, psId, psConfig, psConnection, psConns, psPc, psLocal, psPacket,
                 psRet, psRoutes, psAttempts>>

\* one outbound of any family, from its constructor to the end of the
\* createConnection of its first Route call
VARIABLES
    bFamily,      \* the protocol family, "none" before the constructor ran
    bId,          \* the registered id whose constructor was called
    bOptions,     \* the options blob handed to the constructor
    bConfig,      \* the config the outbound stores
    bErr,         \* the error the constructor returned
    bPc,          \* "new", "built", "stages" (inside a connection path), "done"
    bStages,      \* what the connection path still has to do to the transport
    bRaw,         \* the transport the connection path dialed
    bRet          \* the error createConnection returned, "none" before it returns

bindVars == <<bFamily, bId, bOptions, bConfig, bErr, bPc, bStages, bRaw, bRet>>

\* process start-up: the init() functions of the linked packages, then main
VARIABLES
    inited,         \* the packages whose init() has run
    registrations,  \* per id, the constructors registered under it, in call order
    serviceRan      \* runService has made its registration

registryVars == <<inited, registrations, serviceRan>>

\* one Metrics value shared by the goroutines
VARIABLES
    mu,            \* m.mu: the goroutine that holds the lock, 0 when free
    bytesSent,     \* m.bytesSent
    bytesReceived, \* m.bytesReceived
    connections,   \* m.connections
    mPc,           \* per goroutine: "idle", "lock", "load", "store", "unlock"
    mCall,         \* per goroutine: the call it is in
    mTmpBytes,     \* per goroutine: the counter value it read
    mTmpConns,     \* per goroutine: the gauge value it read
    mLog,          \* the calls in the order their updates were stored
    mCalls         \* calls begun

metricsVars == <<mu, bytesSent, bytesReceived, connections, mPc, mCall, mTmpBytes,
                 mTmpConns, mLog, mCalls>>

\* one utils.Connection wrapped around a stream, and the clock
VARIABLES
    now,           \* time.Now(), in ticks
    cBuilt,        \* NewConnection has run
    lastActivity,  \* c.lastActivity
    cUnder,        \* what the embedded Conn returned from the last Read or Write
    cRet,          \* what the wrapper returned: [op, n, err, at]
    cIdle,         \* the last IsIdle call: [threshold, result]
    cIo,           \* Read and Write calls made
    cIdleCalls     \* IsIdle calls made

connectionVars == <<now, cBuilt, lastActivity, cUnder, cRet, cIdle, cIo, cIdleCalls>>

\* one Timeouts value, the established connection it is applied to, and the
\* clock
VARIABLES
    tNow,          \* time.Now(), in ticks
    tBuilt,        \* the Timeouts value exists
    timeouts,      \* [Connect, Read, Write]
    readDeadline,  \* the connection's read deadline
    writeDeadline, \* the connection's write deadline
    tLast,         \* the last call made: a method name, "Read" or "Write"
    tTimedOut,     \* the last Read or Write failed with a timeout
    tCalls         \* calls made

timeoutsVars == <<tNow, tBuilt, timeouts, readDeadline, writeDeadline, tLast, tTimedOut,
                  tCalls>>

\* one DialContext call on a Psiphon Outbound
VARIABLES
    dPc,          \* "idle", the step about to run, or "done"
    dUseTLS,      \* o.opts.UseTLS
    dConn,        \* the TCP connection: [opened, open, tls]
    dSteps,       \* the steps run so far: [step, ok]
    dAnswer,      \* what doHTTPHandshake read: [kind, code, bytes]
    dErr          \* the error DialContext returned, "none" before it returns

dialVars == <<dPc, dUseTLS, dConn, dSteps, dAnswer, dErr>>

\* one Loader and the file its path names
VARIABLES
    lPc,          \* "new", "stat", "read", "parse", "validate", "done"
    lFile,        \* the file at l.path
    lContent,     \* content, as os.ReadFile returned it
    lParsed,      \* the local options of Load
    lOptions,     \* the *option.Options Load returned
    lErr          \* the error Load returned, "none" before it returns

loaderVars == <<lPc, lFile, lContent, lParsed, lOptions, lErr>>

\* one call of SSHBaseOutbound.connectViaProxy
VARIABLES
    xPc,          \* "idle", "dial", "hello" (sending the proxy handshake), "check", "done"
    xMethod,      \* s.config.ProxyMethod
    xAddress,     \* the address parameter
    xProxyAddr,   \* s.config.ProxyServer and s.config.ProxyPort
    xConn,        \* proxyConn: [dialed, open]
    xWrites,      \* the outcome of each proxyConn.Write so far, TRUE for success
    xErr,         \* the local err
    xRet          \* what the call returned: [conn, err], conn TRUE for proxyConn

proxyVars == <<xPc, xMethod, xAddress, xProxyAddr, xConn, xWrites, xErr, xRet>>

\* what the caller does with the result of a successful DialContext
VARIABLES
    dProxyClosed,    \* Close was called on the returned proxy connection
    dOutboundClosed  \* Outbound.Close was called

releaseVars == <<dProxyClosed, dOutboundClosed>>

\* one OpenVPN outbound shared by the goroutines
VARIABLES
    oConnection,  \* o.connection, an interface value: [tab, data]
    oConns,       \* every transport createConnection dialed: [open]
    oPc,          \* per goroutine: its position in Route or Close
    oLocal,       \* per goroutine: the local conn of connectAndRoute
    oRet,         \* per goroutine: the error its last call returned
    oCalls,       \* calls begun
    oCloses,      \* Close calls that have returned
    oQuiet,       \* the last Close call began when no Route call was running,
                  \* and no Route call has begun since
    oCrashed      \* a goroutine panicked

ovpnVars == <<oConnection, oConns, oPc, oLocal, oRet, oCalls, oCloses, oQuiet, oCrashed>>

\* one Connection shared by the goroutines, and the monotonic clock
VARIABLES
    kNow,           \* the monotonic clock reading
    kLastActivity,  \* c.lastActivity: the monotonic reading it holds, one word
    kPc,            \* per goroutine: its position in Read, Write or IsIdle
    kSample,        \* per goroutine: the time.Now() it sampled, or the
                    \* lastActivity it loaded
    kThreshold,     \* per goroutine: the duration passed to IsIdle
    kSeenDone,      \* per goroutine: kDone when its IsIdle call began
    kDone,          \* the latest time.Now() a returned Read or Write sampled, -1 if none
    kIdle,          \* the last IsIdle result: [threshold, result, at, done]
    kCalls          \* calls begun

sharedVars == <<kNow, kLastActivity, kPc, kSample, kThreshold, kSeenDone, kDone, kIdle, kCalls>>

vars == <<outboundVars, retryVars, psiphonVars, bindVars, registryVars, metricsVars, connectionVars, timeoutsVars, dialVars, loaderVars, proxyVars, releaseVars, ovpnVars, sharedVars>>

\* what the actions of one component leave alone
nonOutboundVars == <<retryVars, psiphonVars, bindVars, registryVars, metricsVars, connectionVars, timeoutsVars, dialVars, loaderVars, proxyVars, releaseVars, ovpnVars, sharedVars>>
nonRetryVars == <<outboundVars, psiphonVars, bindVars, registryVars, metricsVars, connectionVars, timeoutsVars, dialVars, loaderVars, proxyVars, releaseVars, ovpnVars, sharedVars>>
nonPsiphonVars == <<outboundVars, retryVars, bindVars, registryVars, metricsVars, connectionVars, timeoutsVars, dialVars, loaderVars, proxyVars, releaseVars, ovpnVars, sharedVars>>
nonBindVars == <<outboundVars, retryVars, psiphonVars, registryVars, metricsVars, connectionVars, timeoutsVars, dialVars, loaderVars, proxyVars, releaseVars, ovpnVars, sharedVars>>
nonRegistryVars == <<outboundVars, retryVars, psiphonVars, bindVars, metricsVars, connectionVars, timeoutsVars, dialVars, loaderVars, proxyVars, releaseVars, ovpnVars, sharedVars>>
nonMetricsVars == <<outboundVars, retryVars, psiphonVars, bindVars, registryVars, connectionVars, timeoutsVars, dialVars, loaderVars, proxyVars, releaseVars, ovpnVars, sharedVars>>
nonConnectionVars == <<outboundVars, retryVars, psiphonVars, bindVars, registryVars, metricsVars, timeoutsVars, dialVars, loaderVars, proxyVars, releaseVars, ovpnVars, sharedVars>>
nonTimeoutsVars == <<outboundVars, retryVars, psiphonVars, bindVars, registryVars, metricsVars, connectionVars, dialVars, loaderVars, proxyVars, releaseVars, ovpnVars, sharedVars>>
nonDialVars == <<outboundVars, retryVars, psiphonVars, bindVars, registryVars, metricsVars, connectionVars, timeoutsVars, loaderVars, proxyVars, releaseVars, ovpnVars, sharedVars>>
nonLoaderVars == <<outboundVars, retryVars, psiphonVars, bindVars, registryVars, metricsVars, connectionVars, timeoutsVars, dialVars, proxyVars, releaseVars, ovpnVars, sharedVars>>
nonProxyVars == <<outboundVars, retryVars, psiphonVars, bindVars, registryVars, metricsVars, connectionVars, timeoutsVars, dialVars, loaderVars, releaseVars, ovpnVars, sharedVars>>
nonReleaseVars == <<outboundVars, retryVars, psiphonVars, bindVars, registryVars, metricsVars, connectionVars, timeoutsVars, dialVars, loaderVars, proxyVars, ovpnVars, sharedVars>>
nonOvpnVars == <<outboundVars, retryVars, psiphonVars, bindVars, registryVars, metricsVars, connectionVars, timeoutsVars, dialVars, loaderVars, proxyVars, releaseVars, sharedVars>>
nonSharedVars == <<outboundVars, retryVars, psiphonVars, bindVars, registryVars, metricsVars, connectionVars, timeoutsVars, dialVars, loaderVars, proxyVars, releaseVars, ovpnVars>>

\* the interface value nil: no type word, no data word
\* no transport dialed yet
NoTransport == [dialed |-> FALSE, open |-> FALSE, strategy |-> "none", host |-> "", port |-> 0]

NilConnection == [tab |-> FALSE, data |-> NilPtr]

Init ==
    /\ built = "no"
    /\ protoId = "none"
    /\ config = ZeroConfig
    /\ connection = NilConnection
    /\ conns = <<>>
    /\ dialCalls = 0
    /\ hsCalls = 0
    /\ pc = [t \in Threads |-> "idle"]
    /\ op = [t \in Threads |-> "none"]
    /\ lconn = [t \in Threads |-> NilPtr]
    /\ ret = [t \in Threads |-> "none"]
    /\ packet = [t \in Threads |-> <<>>]
    /\ nops = [t \in Threads |-> 0]
    /\ afterClose = [t \in Threads |-> FALSE]
    /\ raced = [t \in Threads |-> FALSE]
    /\ routeCalls = 0
    /\ closeCalls = 0
    /\ closeRets = <<>>
    /\ failedErr = NilErr
    /\ crashed = FALSE
    /\ retry = [MaxAttempts |-> 0, Delay |-> 0, BackoffNum |-> 0, BackoffDen |-> 1]
    /\ rpc = "new"
    /\ attempt = 0
    /\ delay = 0
    /\ lastErr = NilErr
    /\ invoked = 0
    /\ failures = 0
    /\ slept = <<>>
    /\ rResult = "none"
    /\ psBuilt = "no"
    /\ psId = "none"
    /\ psConfig = PsZeroConfig
    /\ psConnection = NilPtr
    /\ psConns = <<>>
    /\ psPc = "idle"
    /\ psLocal = NilPtr
    /\ psPacket = 0
    /\ psRet = "none"
    /\ psRoutes = 0
    /\ psAttempts = 0
    /\ bFamily = "none"
    /\ bId = "none"
    /\ bOptions = GZeroConfig
    /\ bConfig = GZeroConfig
    /\ bErr = NilErr
    /\ bPc = "new"
    /\ bStages = <<>>
    /\ bRaw = NoTransport
    /\ bRet = "none"
    /\ inited = {}
    /\ registrations = [id \in RegisteredIds |-> <<>>]
    /\ serviceRan = FALSE
    /\ mu = 0
    /\ bytesSent = Zero64
    /\ bytesReceived = Zero64
    /\ connections = 0
    /\ mPc = [t \in Threads |-> "idle"]
    /\ mCall = [t \in Threads |-> [op |-> "none", n |-> 0]]
    /\ mTmpBytes = [t \in Threads |-> Zero64]
    /\ mTmpConns = [t \in Threads |-> 0]
    /\ mLog = <<>>
    /\ mCalls = 0
    /\ now = 0
    /\ cBuilt = FALSE
    /\ lastActivity = 0
    /\ cUnder = [n |-> 0, err |-> NilErr]
    /\ cRet = [op |-> "none", n |-> 0, err |-> NilErr, at |-> 0]
    /\ cIdle = [threshold |-> 0, result |-> FALSE]
    /\ cIo = 0
    /\ cIdleCalls = 0
    /\ tNow = 0
    /\ tBuilt = FALSE
    /\ timeouts = [Connect |-> 0, Read |-> 0, Write |-> 0]
    /\ readDeadline = NoDeadline
    /\ writeDeadline = NoDeadline
    /\ tLast = "none"
    /\ tTimedOut = FALSE
    /\ tCalls = 0
    /\ dPc = "idle"
    /\ dUseTLS = FALSE
    /\ dConn = [opened |-> FALSE, open |-> FALSE, tls |-> FALSE]
    /\ dSteps = <<>>
    /\ dAnswer = [kind |-> "none", code |-> <<>>, bytes |-> <<>>]
    /\ dErr = "none"
    /\ lPc = "new"
    /\ lFile = [stat |-> "notexist", readable |-> FALSE, content |-> EmptyDocument]
    /\ lContent = EmptyDocument
    /\ lParsed = NilOptions
    /\ lOptions = NilOptions
    /\ lErr = "none"
    /\ xPc = "idle"
    /\ xMethod = ""
    /\ xAddress = ""
    /\ xProxyAddr = <<"", 0>>
    /\ xConn = [dialed |-> FALSE, open |-> FALSE, addr |-> <<"", 0>>, received |-> <<>>]
    /\ xWrites = <<>>
    /\ xErr = NilErr
    /\ xRet = [conn |-> FALSE, err |-> "none"]
    /\ dProxyClosed = FALSE
    /\ dOutboundClosed = FALSE
    /\ oConnection = NilConnection
    /\ oConns = <<>>
    /\ oPc = [t \in Threads |-> "idle"]
    /\ oLocal = [t \in Threads |-> NilPtr]
    /\ oRet = [t \in Threads |-> "none"]
    /\ oCalls = 0
    /\ oCloses = 0
    /\ oQuiet = FALSE
    /\ oCrashed = FALSE
    /\ kNow = 0
    /\ kLastActivity = 0
    /\ kPc = [t \in Threads |-> "idle"]
    /\ kSample = [t \in Threads |-> 0]
    /\ kThreshold = [t \in Threads |-> 0]
    /\ kSeenDone = [t \in Threads |-> -1]
    /\ kDone = -1
    /\ kIdle = [threshold |-> 0, result |-> FALSE, at |-> 0, done |-> -1]
    /\ kCalls = 0

\* ------------------------------------------------------------- constructor
\* mutant: a constructor that connects eagerly
NewWARPOutboundEager(id, options) ==
    /\ built = "no"
    /\ LET res == NewOutboundResult(id, options)
       IN  /\ built' = IF res.err = NilErr THEN "ok" ELSE "rejected"
           /\ config' = res.config
           /\ conns' = IF res.err # NilErr THEN conns
                       ELSE <<[open |-> TRUE, hs |-> "none", payload |-> <<>>, attempts |-> 0,
                               closes |-> 0, kind |-> Strategy(res.config.Mode),
                               addr |-> <<res.config.Server, res.config.Port>>]>>
           /\ dialCalls' = IF res.err # NilErr THEN dialCalls ELSE dialCalls + 1
    /\ protoId' = id
    /\ UNCHANGED <<connection, hsCalls, pc, op, lconn, ret, packet, nops, afterClose,
                   raced, routeCalls, closeCalls, closeRets, failedErr, crashed>>
    /\ UNCHANGED nonOutboundVars

\* register.Outbound(id, New...): the constructor decodes the options and
\* fills in defaults; it stores the config and leaves `connection` nil.
NewWARPOutbound(id, options) ==
    /\ built = "no"
    /\ LET r == NewOutboundResult(id, options)
       IN  /\ built' = IF r.err = NilErr THEN "ok" ELSE "rejected"
           /\ config' = r.config
    /\ protoId' = id
    /\ UNCHANGED <<connection, conns, dialCalls, hsCalls, pc, op, lconn, ret, 
                   packet, nops, afterClose, raced, routeCalls, closeCalls, closeRets, failedErr, crashed>>
    /\ UNCHANGED nonOutboundVars

\* ------------------------------------------------------------------- Route
Live == built = "ok" /\ ~crashed

\* a goroutine may begin another call
MayCall(t) == Live /\ pc[t] = "idle" /\ routeCalls + closeCalls < MaxCalls

\* what net.Dial("udp", address) hands back, wrapped by the strategy's conn type
NewTransport ==
    [open |-> TRUE, hs |-> "none", payload |-> <<>>, attempts |-> 0, closes |-> 0,
     kind |-> Strategy(config.Mode), addr |-> <<config.Server, config.Port>>]

\* a Route call returns err from createConnection
FailRoute(t, err) ==
    /\ ret' = [ret EXCEPT ![t] = err]
    /\ pc' = [pc EXCEPT ![t] = "idle"]
    /\ failedErr' = IF failedErr = NilErr THEN err ELSE failedErr

\* Route(ctx, packet): enters connectAndRoute
RouteBegin(t) ==
    /\ MayCall(t)
    /\ pc' = [pc EXCEPT ![t] = "r_check"]
    /\ op' = [op EXCEPT ![t] = "Route"]
    /\ packet' = [packet EXCEPT ![t] = <<t, nops[t] + 1>>]
    /\ nops' = [nops EXCEPT ![t] = @ + 1]
    /\ lconn' = [lconn EXCEPT ![t] = NilPtr]
    /\ ret' = [ret EXCEPT ![t] = "none"]
    /\ afterClose' = [afterClose EXCEPT ![t] = closeRets # <<>>]
    /\ raced' = [raced EXCEPT ![t] = FALSE]
    /\ routeCalls' = routeCalls + 1
    /\ UNCHANGED <<built, protoId, config, connection, conns, dialCalls, hsCalls,
                   closeCalls, closeRets, failedErr, crashed>>
    /\ UNCHANGED nonOutboundVars

\* if w.connection == nil: the comparison reads the type word
RouteCheck(t) ==
    /\ Live /\ pc[t] = "r_check"
    /\ pc' = [pc EXCEPT ![t] = IF connection.tab THEN "r_write" ELSE "r_create"]
    /\ UNCHANGED <<built, protoId, config, connection, conns, dialCalls, hsCalls, op, lconn,
                   ret, packet, nops, afterClose, raced, routeCalls, closeCalls, closeRets,
                   failedErr, crashed>>
    /\ UNCHANGED nonOutboundVars

\* createConnection up to and including net.Dial: the mode's strategy first
\* checks its required field, then dials; the network decides the outcome
RouteDial(t) ==
    /\ Live /\ pc[t] = "r_create"
    /\ IF PreDialError(config) # NilErr
       THEN /\ FailRoute(t, PreDialError(config))
            /\ UNCHANGED <<conns, dialCalls, lconn>>
       ELSE \E ok \in BOOLEAN :
            /\ dialCalls' = dialCalls + 1
            /\ IF ok
               THEN /\ conns' = Append(conns, NewTransport)
                    /\ lconn' = [lconn EXCEPT ![t] = Len(conns) + 1]
                    /\ pc' = [pc EXCEPT ![t] = "r_hs"]
                    /\ UNCHANGED <<ret, failedErr>>
               ELSE /\ FailRoute(t, "dial error")
                    /\ UNCHANGED <<conns, lconn>>
    /\ UNCHANGED <<built, protoId, config, connection, hsCalls, op, packet, nops,
                   afterClose, raced, routeCalls, closeCalls, closeRets, crashed>>
    /\ UNCHANGED nonOutboundVars

\* mutant: the handshake error is dropped and the connection returned anyway
RouteHandshakeIgnoreError(t) ==
    /\ Live /\ pc[t] = "r_hs"
    /\ hsCalls' = hsCalls + 1
    /\ \E ok \in BOOLEAN :
        conns' = [conns EXCEPT ![lconn[t]].hs = IF ok THEN "ok" ELSE "failed"]
    /\ pc' = [pc EXCEPT ![t] = "r_tab"]
    /\ UNCHANGED <<built, protoId, config, connection, dialCalls, op, lconn, ret, packet, nops,
                   afterClose, raced, routeCalls, closeCalls, closeRets, failedErr, crashed>>
    /\ UNCHANGED nonOutboundVars

\* a variant of the handshake step that leaves the transport it closed on a
\* failed handshake in the connection field
RouteHandshakeKeepsFailed(t) ==
    /\ Live /\ pc[t] = "r_hs"
    /\ hsCalls' = hsCalls + 1
    /\ \E ok \in BOOLEAN :
        IF ok
        THEN /\ conns' = [conns EXCEPT ![lconn[t]].hs = "ok"]
             /\ pc' = [pc EXCEPT ![t] = "r_tab"]
             /\ UNCHANGED <<ret, failedErr, connection>>
        ELSE /\ conns' = [conns EXCEPT ![lconn[t]].hs = "failed",
                                       ![lconn[t]].open = FALSE,
                                       ![lconn[t]].closes = @ + 1]
             /\ connection' = [tab |-> TRUE, data |-> lconn[t]]
             /\ FailRoute(t, "handshake error")
    /\ UNCHANGED <<built, protoId, config, dialCalls, op, lconn, packet, nops,
                   afterClose, raced, routeCalls, closeCalls, closeRets, crashed>>
    /\ UNCHANGED nonOutboundVars

\* perform*Handshake(conn): writes the initiation message; on error the
\* strategy closes conn and createConnection returns the error
RouteHandshake(t) ==
    /\ Live /\ pc[t] = "r_hs"
    /\ hsCalls' = hsCalls + 1
    /\ \E ok \in BOOLEAN :
        IF ok
        THEN /\ conns' = [conns EXCEPT ![lconn[t]].hs = "ok"]
             /\ pc' = [pc EXCEPT ![t] = "r_tab"]
             /\ UNCHANGED <<ret, failedErr>>
        ELSE /\ conns' = [conns EXCEPT ![lconn[t]].hs = "failed",
                                       ![lconn[t]].open = FALSE,
                                       ![lconn[t]].closes = @ + 1]
             /\ FailRoute(t, "handshake error")
    /\ UNCHANGED <<built, protoId, config, connection, dialCalls, op, lconn, packet, nops,
                   afterClose, raced, routeCalls, closeCalls, closeRets, crashed>>
    /\ UNCHANGED nonOutboundVars

\* w.connection = conn, an unsynchronised store of a two-word interface
\* value: the type word becomes visible first, the data word second
RouteAssignTab(t) ==
    /\ Live /\ pc[t] = "r_tab"
    /\ connection' = [connection EXCEPT !.tab = TRUE]
    /\ pc' = [pc EXCEPT ![t] = "r_data"]
    /\ UNCHANGED <<built, protoId, config, conns, dialCalls, hsCalls, op, lconn, ret, 
                   packet, nops, afterClose, raced, routeCalls, closeCalls, closeRets, failedErr, crashed>>
    /\ UNCHANGED nonOutboundVars

RouteAssignData(t) ==
    /\ Live /\ pc[t] = "r_data"
    /\ connection' = [connection EXCEPT !.data = lconn[t]]
    /\ pc' = [pc EXCEPT ![t] = "r_write"]
    /\ UNCHANGED <<built, protoId, config, conns, dialCalls, hsCalls, op, lconn, ret, 
                   packet, nops, afterClose, raced, routeCalls, closeCalls, closeRets, failedErr, crashed>>
    /\ UNCHANGED nonOutboundVars

\* _, err := w.connection.Write(packet.Data()); return err
\* a variant of RouteWrite that forgets the cached connection after a write
\* error, so that the next Route call dials again
RouteWriteDropsConnection(t) ==
    /\ Live /\ pc[t] = "r_write"
    /\ IF connection.data = NilPtr
       THEN /\ crashed' = TRUE
            /\ pc' = [pc EXCEPT ![t] = "panic"]
            /\ UNCHANGED <<conns, ret>>
       ELSE LET c == connection.data
            IN  /\ UNCHANGED crashed
                /\ pc' = [pc EXCEPT ![t] = "idle"]
                /\ IF ~conns[c].open
                   THEN /\ conns' = [conns EXCEPT ![c].attempts = @ + 1]
                        /\ ret' = [ret EXCEPT ![t] = "use of closed network connection"]
                   ELSE \E ok \in BOOLEAN :
                        IF ok
                        THEN /\ conns' = [conns EXCEPT ![c].attempts = @ + 1,
                                                       ![c].payload = Append(@, packet[t])]
                             /\ ret' = [ret EXCEPT ![t] = NilErr]
                        ELSE /\ conns' = [conns EXCEPT ![c].attempts = @ + 1]
                             /\ ret' = [ret EXCEPT ![t] = "write error"]
    /\ connection' = IF ret'[t] = "write error" THEN NilConnection ELSE connection
    /\ UNCHANGED <<built, protoId, config, dialCalls, hsCalls, op, lconn, 
                   packet, nops, afterClose, raced, routeCalls, closeCalls, closeRets, failedErr>>
    /\ UNCHANGED nonOutboundVars

\* A half-stored interface value (type word set, data word nil) makes the
\* wrapper's Write dereference nil: the goroutine panics. A closed transport
\* refuses the write; an open one takes the packet or fails with an I/O error.
RouteWrite(t) ==
    /\ Live /\ pc[t] = "r_write"
    /\ IF connection.data = NilPtr
       THEN /\ crashed' = TRUE
            /\ pc' = [pc EXCEPT ![t] = "panic"]
            /\ UNCHANGED <<conns, ret>>
       ELSE LET c == connection.data
            IN  /\ UNCHANGED crashed
                /\ pc' = [pc EXCEPT ![t] = "idle"]
                /\ IF ~conns[c].open
                   THEN /\ conns' = [conns EXCEPT ![c].attempts = @ + 1]
                        /\ ret' = [ret EXCEPT ![t] = "use of closed network connection"]
                   ELSE \E ok \in BOOLEAN :
                        IF ok
                        THEN /\ conns' = [conns EXCEPT ![c].attempts = @ + 1,
                                                       ![c].payload = Append(@, packet[t])]
                             /\ ret' = [ret EXCEPT ![t] = NilErr]
                        ELSE /\ conns' = [conns EXCEPT ![c].attempts = @ + 1]
                             /\ ret' = [ret EXCEPT ![t] = "write error"]
    /\ UNCHANGED <<built, protoId, config, connection, dialCalls, hsCalls, op, lconn, 
                   packet, nops, afterClose, raced, routeCalls, closeCalls, closeRets, failedErr>>
    /\ UNCHANGED nonOutboundVars

\* ------------------------------------------------------------------- Close
\* the Route calls that are dialing or handshaking at this moment
Establishing == {u \in Threads : pc[u] \in {"r_create", "r_hs"}}

\* a Close call returns err
ReturnClose(t, err) ==
    /\ ret' = [ret EXCEPT ![t] = err]
    /\ pc' = [pc EXCEPT ![t] = "idle"]
    /\ closeRets' = Append(closeRets, err)
    /\ raced' = [u \in Threads |-> raced[u] \/ u \in Establishing]

CloseBegin(t) ==
    /\ MayCall(t)
    /\ pc' = [pc EXCEPT ![t] = "c_check"]
    /\ op' = [op EXCEPT ![t] = "Close"]
    /\ lconn' = [lconn EXCEPT ![t] = NilPtr]
    /\ ret' = [ret EXCEPT ![t] = "none"]
    /\ afterClose' = [afterClose EXCEPT ![t] = FALSE]
    /\ raced' = [raced EXCEPT ![t] = FALSE]
    /\ closeCalls' = closeCalls + 1
    /\ UNCHANGED <<built, protoId, config, connection, conns, dialCalls, hsCalls, packet, nops,
                   routeCalls, closeRets, failedErr, crashed>>
    /\ UNCHANGED nonOutboundVars

\* if w.connection != nil ... else return nil
CloseCheck(t) ==
    /\ Live /\ pc[t] = "c_check"
    /\ IF connection.tab
       THEN /\ pc' = [pc EXCEPT ![t] = "c_close"]
            /\ UNCHANGED <<ret, closeRets, raced>>
       ELSE ReturnClose(t, NilErr)
    /\ UNCHANGED <<built, protoId, config, connection, conns, dialCalls, hsCalls, op, lconn,
                   packet, nops, afterClose, routeCalls, closeCalls, failedErr, crashed>>
    /\ UNCHANGED nonOutboundVars

\* return w.connection.Close(): the wrapper forwards to the net.Conn, which
\* closes once and answers a further Close with an error
CloseConn(t) ==
    /\ Live /\ pc[t] = "c_close"
    /\ IF connection.data = NilPtr
       THEN /\ crashed' = TRUE
            /\ pc' = [pc EXCEPT ![t] = "panic"]
            /\ UNCHANGED <<conns, ret, closeRets, raced>>
       ELSE LET c == connection.data
            IN  /\ UNCHANGED crashed
                /\ conns' = [conns EXCEPT ![c].open = FALSE, ![c].closes = @ + 1]
                /\ ReturnClose(t, IF conns[c].open THEN NilErr
                                  ELSE "use of closed network connection")
    /\ UNCHANGED <<built, protoId, config, connection, dialCalls, hsCalls, op, lconn, 
                   packet, nops, afterClose, routeCalls, closeCalls, failedErr>>
    /\ UNCHANGED nonOutboundVars

\* ---------------------------------------------------------- specification
Next ==
    \/ \E id \in ProtocolIds, options \in OptionBlobs : NewWARPOutbound(id, options)
    \/ \E t \in Threads : RouteBegin(t)
    \/ \E t \in Threads : RouteCheck(t)
    \/ \E t \in Threads : RouteDial(t)
    \/ \E t \in Threads : RouteHandshake(t)
    \/ \E t \in Threads : RouteAssignTab(t)
    \/ \E t \in Threads : RouteAssignData(t)
    \/ \E t \in Threads : RouteWrite(t)
    \/ \E t \in Threads : CloseBegin(t)
    \/ \E t \in Threads : CloseCheck(t)
    \/ \E t \in Threads : CloseConn(t)

Spec == Init /\ [][Next]_vars

\* ------------------------------------------------------------------- Retry
\* Backoff: 1.5, held as the fraction 3/2
BackoffNum == 3
BackoffDen == 2

\* time.Duration values (nanoseconds) a caller may pass as the delay
Delays == {0, 1, 3, 100000000}

\* time.Duration(float64(delay) * r.Backoff): the product is exact in float64
\* for these magnitudes, the conversion back truncates toward zero
ScaleBackoff(d, num, den) ==
    LET p == d * num
    IN  IF p >= 0 THEN p \div den ELSE -((-p) \div den)

RetryFailed == "operation failed after MaxAttempts attempts"

NewRetry(maxAttempts, d) ==
    /\ rpc = "new"
    /\ retry' = [MaxAttempts |-> maxAttempts, Delay |-> d,
             BackoffNum |-> BackoffNum, BackoffDen |-> BackoffDen]
    /\ rpc' = "ready"
    /\ UNCHANGED <<attempt, delay, lastErr, invoked, failures, slept, rResult>>
    /\ UNCHANGED nonRetryVars

\* var lastErr error; delay := r.Delay; attempt := 1
DoBegin ==
    /\ rpc = "ready"
    /\ lastErr' = NilErr
    /\ delay' = retry.Delay
    /\ attempt' = 1
    /\ rpc' = "loop"
    /\ UNCHANGED <<retry, invoked, failures, slept, rResult>>
    /\ UNCHANGED nonRetryVars

\* mutant: the loop stops one attempt early (attempt < r.MaxAttempts)
DoLoopOffByOne ==
    /\ rpc = "loop"
    /\ IF attempt < retry.MaxAttempts
       THEN rpc' = "op" /\ UNCHANGED rResult
       ELSE rpc' = "done" /\ rResult' = RetryFailed
    /\ UNCHANGED <<retry, attempt, delay, lastErr, invoked, failures, slept>>
    /\ UNCHANGED nonRetryVars

\* the loop condition attempt <= r.MaxAttempts; when it fails Do returns the
\* "operation failed after %d attempts" error
DoLoop ==
    /\ rpc = "loop"
    /\ IF attempt <= retry.MaxAttempts
       THEN rpc' = "op" /\ UNCHANGED rResult
       ELSE rpc' = "done" /\ rResult' = RetryFailed
    /\ UNCHANGED <<retry, attempt, delay, lastErr, invoked, failures, slept>>
    /\ UNCHANGED nonRetryVars

\* mutant: every failed attempt is followed by a sleep, the last one too
DoOperationAlwaysSleeps(ok) ==
    /\ rpc = "op"
    /\ invoked' = invoked + 1
    /\ IF ok
       THEN /\ lastErr' = NilErr
            /\ rResult' = NilErr
            /\ rpc' = "done"
            /\ UNCHANGED failures
       ELSE /\ lastErr' = "operation error"
            /\ failures' = failures + 1
            /\ UNCHANGED rResult
            /\ rpc' = "sleep"
    /\ UNCHANGED <<retry, attempt, delay, slept>>
    /\ UNCHANGED nonRetryVars

\* a variant of the loop body that does not return on a nil result
DoOperationIgnoresSuccess(ok) ==
    /\ rpc = "op"
    /\ invoked' = invoked + 1
    /\ lastErr' = IF ok THEN NilErr ELSE "operation error"
    /\ failures' = IF ok THEN failures ELSE failures + 1
    /\ UNCHANGED rResult
    /\ IF attempt < retry.MaxAttempts
       THEN rpc' = "sleep" /\ UNCHANGED attempt
       ELSE rpc' = "loop" /\ attempt' = attempt + 1
    /\ UNCHANGED <<retry, delay, slept>>
    /\ UNCHANGED nonRetryVars

\* lastErr = operation(); nil returns at once, an error goes on to the
\* attempt < r.MaxAttempts test that decides whether to sleep
DoOperation(ok) ==
    /\ rpc = "op"
    /\ invoked' = invoked + 1
    /\ IF ok
       THEN /\ lastErr' = NilErr
            /\ rResult' = NilErr
            /\ rpc' = "done"
            /\ UNCHANGED <<attempt, failures>>
       ELSE /\ lastErr' = "operation error"
            /\ failures' = failures + 1
            /\ UNCHANGED rResult
            /\ IF attempt < retry.MaxAttempts
               THEN rpc' = "sleep" /\ UNCHANGED attempt
               ELSE rpc' = "loop" /\ attempt' = attempt + 1
    /\ UNCHANGED <<retry, delay, slept>>
    /\ UNCHANGED nonRetryVars

\* a variant of the loop whose attempt counter does not advance after a sleep
DoSleepKeepsAttempt ==
    /\ rpc = "sleep"
    /\ slept' = Append(slept, delay)
    /\ delay' = ScaleBackoff(delay, retry.BackoffNum, retry.BackoffDen)
    /\ rpc' = "loop"
    /\ UNCHANGED <<retry, attempt, lastErr, invoked, failures, rResult>>
    /\ UNCHANGED nonRetryVars

\* time.Sleep(delay); delay = time.Duration(float64(delay) * r.Backoff); attempt++
DoSleep ==
    /\ rpc = "sleep"
    /\ slept' = Append(slept, delay)
    /\ delay' = ScaleBackoff(delay, retry.BackoffNum, retry.BackoffDen)
    /\ attempt' = attempt + 1
    /\ rpc' = "loop"
    /\ UNCHANGED <<retry, lastErr, invoked, failures, rResult>>
    /\ UNCHANGED nonRetryVars

NextRetry ==
    \/ \E maxAttempts \in -1..MaxRetryCount, d \in Delays : NewRetry(maxAttempts, d)
    \/ DoBegin
    \/ DoLoop
    \/ \E ok \in BOOLEAN : DoOperation(ok)
    \/ DoSleep

SpecRetry == Init /\ [][NextRetry]_vars

\* Do runs on its caller's goroutine, which the scheduler keeps running, and
\* operation() returns: every step of the loop that can be taken is taken
SpecRetryFair ==
    SpecRetry /\ WF_vars(DoLoop \/ (\E ok \in BOOLEAN : DoOperation(ok)) \/ DoSleep)

\* ----------------------------------------------------------------- Psiphon
\* NewPsiphonOutbound and the four constructors that wrap it
NewPsiphonOutbound(id, options) ==
    LET res == NewPsiphonResult(id, options) IN
    /\ psBuilt = "no"
    /\ psBuilt' = IF res.err = NilErr THEN "ok" ELSE "rejected"
    /\ psId' = id
    /\ psConfig' = res.config
    /\ UNCHANGED <<psConnection, psConns, psPc, psLocal, psPacket, psRet, psRoutes,
                   psAttempts>>
    /\ UNCHANGED nonPsiphonVars

PsNewTransport ==
    [open |-> TRUE, hs |-> FALSE, payload |-> <<>>, writes |-> 0,
     kind |-> PsStrategy(psConfig.Protocol), addr |-> PsDialAddress(psConfig)]

\* Route -> connectAndRoute, up to the nil check of p.connection
PsRouteBegin ==
    /\ psBuilt = "ok"
    /\ psPc = "idle"
    /\ psRoutes < MaxPsRoutes
    /\ psRoutes' = psRoutes + 1
    /\ psPacket' = psRoutes + 1
    /\ psAttempts' = 0
    /\ psRet' = "none"
    /\ psPc' = IF psConnection = NilPtr THEN "create" ELSE "write"
    /\ UNCHANGED <<psBuilt, psId, psConfig, psConnection, psConns, psLocal>>
    /\ UNCHANGED nonPsiphonVars

\* createConnection: the switch and the dial of the create*Connection it picks
PsCreateDial(ok) ==
    /\ psPc = "create"
    /\ psAttempts' = psAttempts + 1
    /\ IF ok
       THEN /\ psConns' = Append(psConns, PsNewTransport)
            /\ psLocal' = Len(psConns) + 1
            /\ psPc' = "hs"
            /\ UNCHANGED psRet
       ELSE /\ psRet' = "dial error"
            /\ psPc' = "idle"
            /\ UNCHANGED <<psConns, psLocal>>
    /\ UNCHANGED <<psBuilt, psId, psConfig, psConnection, psPacket, psRoutes>>
    /\ UNCHANGED nonPsiphonVars

\* the perform*Handshake of the create*Connection, then `p.connection = conn`
PsCreateHandshake(ok) ==
    /\ psPc = "hs"
    /\ ok \/ PsHandshakeCanFail(psConns[psLocal].kind)
    /\ IF ok
       THEN /\ psConns' = [psConns EXCEPT ![psLocal].hs = TRUE]
            /\ psConnection' = psLocal
            /\ psPc' = "write"
            /\ UNCHANGED psRet
       ELSE /\ psConns' = [psConns EXCEPT ![psLocal].open = FALSE]
            /\ psRet' = "handshake error"
            /\ psPc' = "idle"
            /\ UNCHANGED psConnection
    /\ psLocal' = NilPtr
    /\ UNCHANGED <<psBuilt, psId, psConfig, psPacket, psRoutes, psAttempts>>
    /\ UNCHANGED nonPsiphonVars

\* `_, err := p.connection.Write(packet.Data()); return err`
PsRouteWrite(ok) ==
    /\ psPc = "write"
    /\ IF ok /\ psConns[psConnection].open
       THEN /\ psConns' = [psConns EXCEPT
                             ![psConnection].payload = Append(@, psPacket),
                             ![psConnection].writes = @ + 1]
            /\ psRet' = NilErr
       ELSE /\ psConns' = [psConns EXCEPT ![psConnection].writes = @ + 1]
            /\ psRet' = "write error"
    /\ psPc' = "idle"
    /\ UNCHANGED <<psBuilt, psId, psConfig, psConnection, psLocal, psPacket, psRoutes,
                   psAttempts>>
    /\ UNCHANGED nonPsiphonVars

\* PsiphonBaseOutbound.Close
PsClose ==
    /\ psBuilt = "ok"
    /\ psPc = "idle"
    /\ psConnection # NilPtr
    /\ psConns[psConnection].open
    /\ psConns' = [psConns EXCEPT ![psConnection].open = FALSE]
    /\ UNCHANGED <<psBuilt, psId, psConfig, psConnection, psPc, psLocal, psPacket, psRet,
                   psRoutes, psAttempts>>
    /\ UNCHANGED nonPsiphonVars

NextPsiphon ==
    \/ \E id \in PsiphonIds, options \in PsOptionBlobs : NewPsiphonOutbound(id, options)
    \/ PsRouteBegin
    \/ \E ok \in BOOLEAN : PsCreateDial(ok)
    \/ \E ok \in BOOLEAN : PsCreateHandshake(ok)
    \/ \E ok \in BOOLEAN : PsRouteWrite(ok)
    \/ PsClose

SpecPsiphon == Init /\ [][NextPsiphon]_vars

\* ------------------------------------------- construction and first connect
\* the constructor registered under id runs on an options blob
BindConstruct(family, id, options) ==
    LET res == Construct(family, id, options) IN
    /\ bPc = "new"
    /\ bFamily' = family
    /\ bId' = id
    /\ bOptions' = options
    /\ bConfig' = res.config
    /\ bErr' = res.err
    /\ bPc' = IF res.err = NilErr THEN "built" ELSE "done"
    /\ UNCHANGED <<bStages, bRaw, bRet>>
    /\ UNCHANGED nonBindVars

\* the first Route call: createConnection's switch, the checks the chosen
\* connection path makes before dialing, and its dial
BindDispatch(ok) ==
    LET strategy == StrategyOf(bFamily, bConfig)
        address == DialAddress(bFamily, bConfig)
    IN
    /\ bPc = "built"
    /\ IF DispatchError(bFamily, bConfig) # NilErr
       THEN /\ ok
            /\ bRet' = DispatchError(bFamily, bConfig)
            /\ bPc' = "done"
            /\ UNCHANGED <<bStages, bRaw>>
       ELSE IF ~Dials(bFamily, strategy)
       THEN /\ ok
            /\ bRaw' = [NoTransport EXCEPT !.strategy = strategy]
            /\ bStages' = PostDialStages(bFamily, bConfig)
            /\ bPc' = "stages"
            /\ UNCHANGED bRet
       ELSE IF ok
       THEN /\ bRaw' = [dialed |-> TRUE, open |-> TRUE, strategy |-> strategy,
                        host |-> address[1], port |-> address[2]]
            /\ bStages' = PostDialStages(bFamily, bConfig)
            /\ bPc' = "stages"
            /\ UNCHANGED bRet
       ELSE /\ bRaw' = [NoTransport EXCEPT !.strategy = strategy,
                                           !.host = address[1], !.port = address[2]]
            /\ bRet' = "dial error"
            /\ bPc' = "done"
            /\ UNCHANGED bStages
    /\ UNCHANGED <<bFamily, bId, bOptions, bConfig, bErr>>
    /\ UNCHANGED nonBindVars

\* a variant of BindStage whose failing stage returns without closing
BindStageLeaks(ok) ==
    /\ bPc = "stages"
    /\ bStages # <<>>
    /\ ok \/ StageCanFail(bFamily, bConfig, Head(bStages))
    /\ IF ok
       THEN /\ bStages' = Tail(bStages)
            /\ bRaw' = IF Head(bStages) = "exchange" THEN [bRaw EXCEPT !.open = FALSE] ELSE bRaw
            /\ UNCHANGED <<bRet, bPc>>
       ELSE /\ bRet' = Head(bStages) \o " error"
            /\ bPc' = "done"
            /\ UNCHANGED <<bStages, bRaw>>
    /\ UNCHANGED <<bFamily, bId, bOptions, bConfig, bErr>>
    /\ UNCHANGED nonBindVars

\* one step of the connection path on the dialed transport: the proxy
\* greeting, the TLS handshake, the payload write, the protocol handshake or
\* the DNS exchange; a failure closes the transport and returns the error
BindStage(ok) ==
    /\ bPc = "stages"
    /\ bStages # <<>>
    /\ ok \/ StageCanFail(bFamily, bConfig, Head(bStages))
    /\ IF ok
       THEN /\ bStages' = Tail(bStages)
            /\ bRaw' = IF Head(bStages) = "exchange" THEN [bRaw EXCEPT !.open = FALSE] ELSE bRaw
            /\ UNCHANGED <<bRet, bPc>>
       ELSE /\ bRaw' = [bRaw EXCEPT !.open = FALSE]
            /\ bRet' = Head(bStages) \o " error"
            /\ bPc' = "done"
            /\ UNCHANGED bStages
    /\ UNCHANGED <<bFamily, bId, bOptions, bConfig, bErr>>
    /\ UNCHANGED nonBindVars

\* the connection path returns its connection
BindReturn ==
    /\ bPc = "stages"
    /\ bStages = <<>>
    /\ bRet' = NilErr
    /\ bPc' = "done"
    /\ UNCHANGED <<bFamily, bId, bOptions, bConfig, bErr, bStages, bRaw>>
    /\ UNCHANGED nonBindVars

NextBind ==
    \/ \E family \in Families : \E id \in IdsOf(family), options \in OptionsOf(family) :
            BindConstruct(family, id, options)
    \/ \E ok \in BOOLEAN : BindDispatch(ok)
    \/ \E ok \in BOOLEAN : BindStage(ok)
    \/ BindReturn

SpecBind == Init /\ [][NextBind]_vars

\* ------------------------------------------------------- process start-up
\* a sequence of registration calls, applied to the record of registrations
Register(regs, calls) ==
    [id \in RegisteredIds |-> regs[id] \o ConstructorsFor(calls, id)]

\* the init() of one linked package; Go runs every init() before main, in an
\* order the packages' imports decide
RunInit(pkg) ==
    /\ ~serviceRan
    /\ pkg \notin inited
    /\ inited' = inited \cup {pkg}
    /\ registrations' = Register(registrations, InitRegistrations(pkg))
    /\ UNCHANGED serviceRan
    /\ UNCHANGED nonRegistryVars

\* main -> runService, which imports package psiphon and registers "psiphon"
RunService ==
    /\ ~serviceRan
    /\ "psiphon" \in inited
    /\ serviceRan' = TRUE
    /\ registrations' = Register(registrations, ServiceRegistrations)
    /\ UNCHANGED inited
    /\ UNCHANGED nonRegistryVars

NextRegistry ==
    \/ \E pkg \in Packages : RunInit(pkg)
    \/ RunService

SpecRegistry == Init /\ [][NextRegistry]_vars

\* ----------------------------------------------------------------- Metrics
\* a goroutine calls AddBytesSent(n), AddBytesReceived(n), IncConnections()
\* or DecConnections()
MetricsCall(t, c) ==
    /\ mPc[t] = "idle"
    /\ mCalls < MaxMetricsCalls
    /\ mCall' = [mCall EXCEPT ![t] = c]
    /\ mPc' = [mPc EXCEPT ![t] = "lock"]
    /\ mCalls' = mCalls + 1
    /\ UNCHANGED <<mu, bytesSent, bytesReceived, connections, mTmpBytes, mTmpConns, mLog>>
    /\ UNCHANGED nonMetricsVars

\* a variant of the methods that enters without waiting for the mutex
MetricsLockUnguarded(t) ==
    /\ mPc[t] = "lock"
    /\ mu' = t
    /\ mPc' = [mPc EXCEPT ![t] = "load"]
    /\ UNCHANGED <<bytesSent, bytesReceived, connections, mCall, mTmpBytes, mTmpConns,
                   mLog, mCalls>>
    /\ UNCHANGED nonMetricsVars

\* m.mu.Lock(): blocks while another goroutine holds the mutex
MetricsLock(t) ==
    /\ mPc[t] = "lock"
    /\ mu = 0
    /\ mu' = t
    /\ mPc' = [mPc EXCEPT ![t] = "load"]
    /\ UNCHANGED <<bytesSent, bytesReceived, connections, mCall, mTmpBytes, mTmpConns,
                   mLog, mCalls>>
    /\ UNCHANGED nonMetricsVars

\* the read half of m.bytesSent += ..., m.bytesReceived += ...,
\* m.connections++ and of `if m.connections > 0`
MetricsLoad(t) ==
    /\ mPc[t] = "load"
    /\ mTmpBytes' = [mTmpBytes EXCEPT ![t] =
                        CASE mCall[t].op = "AddBytesSent"     -> bytesSent
                          [] mCall[t].op = "AddBytesReceived" -> bytesReceived
                          [] OTHER                            -> @]
    /\ mTmpConns' = [mTmpConns EXCEPT ![t] =
                        IF mCall[t].op \in {"IncConnections", "DecConnections"}
                        THEN connections ELSE @]
    /\ mPc' = [mPc EXCEPT ![t] = "store"]
    /\ UNCHANGED <<mu, bytesSent, bytesReceived, connections, mCall, mLog, mCalls>>
    /\ UNCHANGED nonMetricsVars

\* the write half: the counter gets the value read plus uint64(n), the gauge
\* the value read plus one, or minus one when the value read was positive
MetricsStore(t) ==
    /\ mPc[t] = "store"
    /\ bytesSent' = IF mCall[t].op = "AddBytesSent"
                    THEN Add64(mTmpBytes[t], ToUint64(mCall[t].n)) ELSE bytesSent
    /\ bytesReceived' = IF mCall[t].op = "AddBytesReceived"
                        THEN Add64(mTmpBytes[t], ToUint64(mCall[t].n)) ELSE bytesReceived
    /\ connections' = CASE mCall[t].op = "IncConnections" -> mTmpConns[t] + 1
                        [] mCall[t].op = "DecConnections" /\ mTmpConns[t] > 0 ->
                              mTmpConns[t] - 1
                        [] OTHER -> connections
    /\ mLog' = Append(mLog, mCall[t])
    /\ mPc' = [mPc EXCEPT ![t] = "unlock"]
    /\ UNCHANGED <<mu, mCall, mTmpBytes, mTmpConns, mCalls>>
    /\ UNCHANGED nonMetricsVars

\* the deferred m.mu.Unlock(), and the return
MetricsUnlock(t) ==
    /\ mPc[t] = "unlock"
    /\ mu' = 0
    /\ mPc' = [mPc EXCEPT ![t] = "idle"]
    /\ UNCHANGED <<bytesSent, bytesReceived, connections, mCall, mTmpBytes, mTmpConns,
                   mLog, mCalls>>
    /\ UNCHANGED nonMetricsVars

NextMetrics ==
    \/ \E t \in Threads, c \in MetricsCalls : MetricsCall(t, c)
    \/ \E t \in Threads : MetricsLock(t)
    \/ \E t \in Threads : MetricsLoad(t)
    \/ \E t \in Threads : MetricsStore(t)
    \/ \E t \in Threads : MetricsUnlock(t)

SpecMetrics == Init /\ [][NextMetrics]_vars

\* -------------------------------------------------------------- Connection
\* time passes
Tick ==
    /\ now < MaxClock
    /\ now' = now + 1
    /\ UNCHANGED <<cBuilt, lastActivity, cUnder, cRet, cIdle, cIo, cIdleCalls>>
    /\ UNCHANGED nonConnectionVars

\* NewConnection(conn): lastActivity starts at time.Now()
NewConnection ==
    /\ ~cBuilt
    /\ cBuilt' = TRUE
    /\ lastActivity' = now
    /\ UNCHANGED <<now, cUnder, cRet, cIdle, cIo, cIdleCalls>>
    /\ UNCHANGED nonConnectionVars

\* Read(b): n, err = c.Conn.Read(b); lastActivity becomes time.Now() if
\* err == nil && n > 0; n and err are returned
ConnRead(r) ==
    /\ cBuilt
    /\ cIo + cIdleCalls < MaxConnCalls
    /\ cUnder' = r
    /\ lastActivity' = IF r.err = NilErr /\ r.n > 0 THEN now ELSE lastActivity
    /\ cRet' = [op |-> "Read", n |-> r.n, err |-> r.err, at |-> now]
    /\ cIo' = cIo + 1
    /\ UNCHANGED <<now, cBuilt, cIdle, cIdleCalls>>
    /\ UNCHANGED nonConnectionVars

\* a variant of Write that records activity whatever the stream returned
ConnWriteAlwaysTouches(r) ==
    /\ cBuilt
    /\ cIo + cIdleCalls < MaxConnCalls
    /\ cUnder' = r
    /\ lastActivity' = now
    /\ cRet' = [op |-> "Write", n |-> r.n, err |-> r.err, at |-> now]
    /\ cIo' = cIo + 1
    /\ UNCHANGED <<now, cBuilt, cIdle, cIdleCalls>>
    /\ UNCHANGED nonConnectionVars

\* Write(b): n, err = c.Conn.Write(b); lastActivity becomes time.Now() if
\* err == nil && n > 0; n and err are returned
ConnWrite(r) ==
    /\ cBuilt
    /\ cIo + cIdleCalls < MaxConnCalls
    /\ cUnder' = r
    /\ lastActivity' = IF r.err = NilErr /\ r.n > 0 THEN now ELSE lastActivity
    /\ cRet' = [op |-> "Write", n |-> r.n, err |-> r.err, at |-> now]
    /\ cIo' = cIo + 1
    /\ UNCHANGED <<now, cBuilt, cIdle, cIdleCalls>>
    /\ UNCHANGED nonConnectionVars

\* a variant of IsIdle that compares with >=
ConnIsIdleAtThreshold(threshold) ==
    /\ cBuilt
    /\ cIo + cIdleCalls < MaxConnCalls
    /\ cIdle' = [threshold |-> threshold, result |-> (now - lastActivity >= threshold)]
    /\ cIdleCalls' = cIdleCalls + 1
    /\ UNCHANGED <<now, cBuilt, lastActivity, cUnder, cRet, cIo>>
    /\ UNCHANGED nonConnectionVars

\* IsIdle(duration): time.Since(c.lastActivity) > duration
ConnIsIdle(threshold) ==
    /\ cBuilt
    /\ cIo + cIdleCalls < MaxConnCalls
    /\ cIdle' = [threshold |-> threshold, result |-> (now - lastActivity > threshold)]
    /\ cIdleCalls' = cIdleCalls + 1
    /\ UNCHANGED <<now, cBuilt, lastActivity, cUnder, cRet, cIo>>
    /\ UNCHANGED nonConnectionVars

NextConnection ==
    \/ Tick
    \/ NewConnection
    \/ \E r \in StreamResults : ConnRead(r)
    \/ \E r \in StreamResults : ConnWrite(r)
    \/ \E threshold \in Thresholds : ConnIsIdle(threshold)

SpecConnection == Init /\ [][NextConnection]_vars

\* ---------------------------------------------------------------- Timeouts
\* a Timeouts value as NewTimeouts or a struct literal builds it
MakeTimeouts(connect, read, write) ==
    /\ ~tBuilt
    /\ tBuilt' = TRUE
    /\ timeouts' = [Connect |-> connect, Read |-> read, Write |-> write]
    /\ UNCHANGED <<tNow, readDeadline, writeDeadline, tLast, tTimedOut, tCalls>>
    /\ UNCHANGED nonTimeoutsVars

TimeoutsTick ==
    /\ tNow < MaxClock
    /\ tNow' = tNow + 1
    /\ UNCHANGED <<tBuilt, timeouts, readDeadline, writeDeadline, tLast, tTimedOut, tCalls>>
    /\ UNCHANGED nonTimeoutsVars

\* ApplyToConn(conn): conn.SetDeadline(now + Connect) when Connect > 0;
\* SetDeadline sets the read and the write deadline of the connection
ApplyToConn ==
    /\ tBuilt
    /\ tCalls < MaxTimeoutCalls
    /\ IF timeouts.Connect > 0
       THEN /\ readDeadline' = [set |-> TRUE, at |-> tNow + timeouts.Connect,
                                by |-> "ApplyToConn"]
            /\ writeDeadline' = [set |-> TRUE, at |-> tNow + timeouts.Connect,
                                 by |-> "ApplyToConn"]
       ELSE UNCHANGED <<readDeadline, writeDeadline>>
    /\ tLast' = "ApplyToConn"
    /\ tCalls' = tCalls + 1
    /\ UNCHANGED <<tNow, tBuilt, timeouts, tTimedOut>>
    /\ UNCHANGED nonTimeoutsVars

\* ApplyReadTimeout(conn): conn.SetReadDeadline(now + Read) when Read > 0
ApplyReadTimeout ==
    /\ tBuilt
    /\ tCalls < MaxTimeoutCalls
    /\ readDeadline' = IF timeouts.Read > 0
                       THEN [set |-> TRUE, at |-> tNow + timeouts.Read,
                             by |-> "ApplyReadTimeout"]
                       ELSE readDeadline
    /\ tLast' = "ApplyReadTimeout"
    /\ tCalls' = tCalls + 1
    /\ UNCHANGED <<tNow, tBuilt, timeouts, writeDeadline, tTimedOut>>
    /\ UNCHANGED nonTimeoutsVars

\* ApplyWriteTimeout(conn): conn.SetWriteDeadline(now + Write) when Write > 0
ApplyWriteTimeout ==
    /\ tBuilt
    /\ tCalls < MaxTimeoutCalls
    /\ writeDeadline' = IF timeouts.Write > 0
                        THEN [set |-> TRUE, at |-> tNow + timeouts.Write,
                              by |-> "ApplyWriteTimeout"]
                        ELSE writeDeadline
    /\ tLast' = "ApplyWriteTimeout"
    /\ tCalls' = tCalls + 1
    /\ UNCHANGED <<tNow, tBuilt, timeouts, readDeadline, tTimedOut>>
    /\ UNCHANGED nonTimeoutsVars

\* a Read on the established connection
DeadlineRead ==
    /\ tBuilt
    /\ tCalls < MaxTimeoutCalls
    /\ tTimedOut' = Expired(readDeadline, tNow)
    /\ tLast' = "Read"
    /\ tCalls' = tCalls + 1
    /\ UNCHANGED <<tNow, tBuilt, timeouts, readDeadline, writeDeadline>>
    /\ UNCHANGED nonTimeoutsVars

\* a Write on the established connection
DeadlineWrite ==
    /\ tBuilt
    /\ tCalls < MaxTimeoutCalls
    /\ tTimedOut' = Expired(writeDeadline, tNow)
    /\ tLast' = "Write"
    /\ tCalls' = tCalls + 1
    /\ UNCHANGED <<tNow, tBuilt, timeouts, readDeadline, writeDeadline>>
    /\ UNCHANGED nonTimeoutsVars

NextTimeouts ==
    \/ \E connect, read, write \in TimeoutValues : MakeTimeouts(connect, read, write)
    \/ TimeoutsTick
    \/ ApplyToConn
    \/ ApplyReadTimeout
    \/ ApplyWriteTimeout
    \/ DeadlineRead
    \/ DeadlineWrite

SpecTimeouts == Init /\ [][NextTimeouts]_vars

\* ------------------------------------------------- Psiphon DialContext
\* DialContext(ctx, network, destination) is called
DialBegin(useTLS) ==
    /\ dPc = "idle"
    /\ dUseTLS' = useTLS
    /\ dPc' = "tcp"
    /\ UNCHANGED <<dConn, dSteps, dAnswer, dErr>>
    /\ UNCHANGED nonDialVars

\* 1. dialer.DialContext(ctx, "tcp", server:port)
DialTCP(ok) ==
    /\ dPc = "tcp"
    /\ dSteps' = Append(dSteps, [step |-> "tcp", ok |-> ok])
    /\ IF ok
       THEN /\ dConn' = [opened |-> TRUE, open |-> TRUE, tls |-> FALSE]
            /\ dPc' = IF dUseTLS THEN "tls" ELSE "http"
            /\ UNCHANGED dErr
       ELSE /\ dErr' = "failed to dial server"
            /\ dPc' = "done"
            /\ UNCHANGED dConn
    /\ UNCHANGED <<dUseTLS, dAnswer>>
    /\ UNCHANGED nonDialVars

\* 2. tls.Client(conn, tlsConfig).HandshakeContext(ctx); conn.Close() on error
DialTLS(ok) ==
    /\ dPc = "tls"
    /\ dSteps' = Append(dSteps, [step |-> "tls", ok |-> ok])
    /\ IF ok
       THEN /\ dConn' = [dConn EXCEPT !.tls = TRUE]
            /\ dPc' = "http"
            /\ UNCHANGED dErr
       ELSE /\ dConn' = [dConn EXCEPT !.open = FALSE]
            /\ dErr' = "TLS handshake failed"
            /\ dPc' = "done"
    /\ UNCHANGED <<dUseTLS, dAnswer>>
    /\ UNCHANGED nonDialVars

\* 3. doHTTPHandshake(conn, o.opts): writes the CONNECT request, reads once,
\* and looks for "200" in what it read; conn.Close() on error
DialHTTP(o) ==
    LET err == HTTPHandshakeError(o) IN
    /\ dPc = "http"
    /\ dAnswer' = o
    /\ dSteps' = Append(dSteps, [step |-> "http", ok |-> (err = NilErr)])
    /\ IF err = NilErr
       THEN /\ dPc' = "ssh"
            /\ UNCHANGED <<dConn, dErr>>
       ELSE /\ dConn' = [dConn EXCEPT !.open = FALSE]
            /\ dErr' = "HTTP handshake failed"
            /\ dPc' = "done"
    /\ UNCHANGED dUseTLS
    /\ UNCHANGED nonDialVars

\* a variant of the SSH step that returns its error without closing conn
DialSSHLeaks(ok) ==
    /\ dPc = "ssh"
    /\ dSteps' = Append(dSteps, [step |-> "ssh", ok |-> ok])
    /\ IF ok
       THEN /\ dPc' = "target"
            /\ UNCHANGED dErr
       ELSE /\ dErr' = "SSH connection failed"
            /\ dPc' = "done"
    /\ UNCHANGED <<dUseTLS, dConn, dAnswer>>
    /\ UNCHANGED nonDialVars

\* 4. ssh.NewClientConn(conn, server, sshConfig); conn.Close() on error
DialSSH(ok) ==
    /\ dPc = "ssh"
    /\ dSteps' = Append(dSteps, [step |-> "ssh", ok |-> ok])
    /\ IF ok
       THEN /\ dPc' = "target"
            /\ UNCHANGED <<dConn, dErr>>
       ELSE /\ dConn' = [dConn EXCEPT !.open = FALSE]
            /\ dErr' = "SSH connection failed"
            /\ dPc' = "done"
    /\ UNCHANGED <<dUseTLS, dAnswer>>
    /\ UNCHANGED nonDialVars

\* 5. sshClient.Dial(network, target); sshClient.Close() on error, which
\* closes the connection the SSH client runs on
DialTarget(ok) ==
    /\ dPc = "target"
    /\ dSteps' = Append(dSteps, [step |-> "target", ok |-> ok])
    /\ IF ok
       THEN /\ dErr' = NilErr
            /\ UNCHANGED dConn
       ELSE /\ dConn' = [dConn EXCEPT !.open = FALSE]
            /\ dErr' = "failed to dial target via SSH"
    /\ dPc' = "done"
    /\ UNCHANGED <<dUseTLS, dAnswer>>
    /\ UNCHANGED nonDialVars

NextDial ==
    \/ \E useTLS \in BOOLEAN : DialBegin(useTLS)
    \/ \E ok \in BOOLEAN : DialTCP(ok)
    \/ \E ok \in BOOLEAN : DialTLS(ok)
    \/ \E o \in HTTPOutcomes : DialHTTP(o)
    \/ \E ok \in BOOLEAN : DialSSH(ok)
    \/ \E ok \in BOOLEAN : DialTarget(ok)

SpecDial == Init /\ [][NextDial]_vars

\* ------------------------------------------------------------ config Loader
\* NewLoader(path), with what the path names at the time of the call of Load
NewLoader(file) ==
    /\ lPc = "new"
    /\ lFile' = file
    /\ lPc' = "stat"
    /\ UNCHANGED <<lContent, lParsed, lOptions, lErr>>
    /\ UNCHANGED nonLoaderVars

\* os.Stat(l.path): only os.IsNotExist(err) returns here
LoadStat ==
    /\ lPc = "stat"
    /\ IF lFile.stat = "notexist"
       THEN /\ lErr' = "configuration file not found"
            /\ lOptions' = NilOptions
            /\ lPc' = "done"
       ELSE /\ lPc' = "read"
            /\ UNCHANGED <<lOptions, lErr>>
    /\ UNCHANGED <<lFile, lContent, lParsed>>
    /\ UNCHANGED nonLoaderVars

\* os.ReadFile(l.path)
LoadRead ==
    /\ lPc = "read"
    /\ IF lFile.readable
       THEN /\ lContent' = lFile.content
            /\ lPc' = "parse"
            /\ UNCHANGED <<lOptions, lErr>>
       ELSE /\ lErr' = "failed to read configuration file"
            /\ lOptions' = NilOptions
            /\ lPc' = "done"
            /\ UNCHANGED lContent
    /\ UNCHANGED <<lFile, lParsed>>
    /\ UNCHANGED nonLoaderVars

\* json.Unmarshal(content, &options)
LoadParse ==
    LET res == Unmarshal(lContent) IN
    /\ lPc = "parse"
    /\ IF res.err = NilErr
       THEN /\ lParsed' = res.options
            /\ lPc' = "validate"
            /\ UNCHANGED <<lOptions, lErr>>
       ELSE /\ lErr' = res.err
            /\ lOptions' = NilOptions
            /\ lPc' = "done"
            /\ UNCHANGED lParsed
    /\ UNCHANGED <<lFile, lContent>>
    /\ UNCHANGED nonLoaderVars

\* a variant of the last step that checks the inbounds only
LoadValidateInboundsOnly ==
    /\ lPc = "validate"
    /\ IF lParsed.Inbounds # 0
       THEN /\ lOptions' = lParsed
            /\ lErr' = NilErr
       ELSE /\ lOptions' = NilOptions
            /\ lErr' = "invalid configuration"
    /\ lPc' = "done"
    /\ UNCHANGED <<lFile, lContent, lParsed>>
    /\ UNCHANGED nonLoaderVars

\* l.validate(&options), then return &options, nil
LoadValidate ==
    /\ lPc = "validate"
    /\ IF Validate(lParsed) = NilErr
       THEN /\ lOptions' = lParsed
            /\ lErr' = NilErr
       ELSE /\ lOptions' = NilOptions
            /\ lErr' = "invalid configuration"
    /\ lPc' = "done"
    /\ UNCHANGED <<lFile, lContent, lParsed>>
    /\ UNCHANGED nonLoaderVars

NextLoader ==
    \/ \E file \in Files : NewLoader(file)
    \/ LoadStat
    \/ LoadRead
    \/ LoadParse
    \/ LoadValidate

SpecLoader == Init /\ [][NextLoader]_vars

\* --------------------------------------------------------- connectViaProxy
\* connectViaProxy(address) is called on an outbound with this ProxyMethod
ProxyBegin(method, address, proxyAddr) ==
    /\ xPc = "idle"
    /\ xMethod' = method
    /\ xAddress' = address
    /\ xProxyAddr' = proxyAddr
    /\ xPc' = "dial"
    /\ UNCHANGED <<xConn, xWrites, xErr, xRet>>
    /\ UNCHANGED nonProxyVars

\* proxyConn, err := net.Dial("tcp", proxyAddr)
ProxyDial(ok) ==
    /\ xPc = "dial"
    /\ IF ok
       THEN /\ xConn' = [dialed |-> TRUE, open |-> TRUE, addr |-> xProxyAddr,
                          received |-> <<>>]
            /\ xPc' = "hello"
            /\ UNCHANGED <<xErr, xRet>>
       ELSE /\ xErr' = "dial error"
            /\ xRet' = [conn |-> FALSE, err |-> "dial error"]
            /\ xPc' = "done"
            /\ UNCHANGED xConn
    /\ UNCHANGED <<xMethod, xAddress, xProxyAddr, xWrites>>
    /\ UNCHANGED nonProxyVars

\* one proxyConn.Write of the handshake: `_, err = proxyConn.Write(...)` for
\* "http", `proxyConn.Write(...)` with the result dropped otherwise
ProxyWrite(ok) ==
    /\ xPc = "hello"
    /\ xWrites' = Append(xWrites, ok)
    /\ xErr' = IF xMethod = "http" /\ ~ok THEN "write error" ELSE xErr
    /\ xConn' = IF ok THEN [xConn EXCEPT !.received =
                               Append(@, HelloMessages(xMethod, xAddress)[Len(xWrites) + 1])]
                ELSE xConn
    /\ xPc' = IF Len(xWrites') = Len(HelloMessages(xMethod, xAddress)) THEN "check" ELSE "hello"
    /\ UNCHANGED <<xMethod, xAddress, xProxyAddr, xRet>>
    /\ UNCHANGED nonProxyVars

\* if err != nil { proxyConn.Close(); return nil, err }; return proxyConn, nil
ProxyReturn ==
    /\ xPc = "check"
    /\ IF xErr # NilErr
       THEN /\ xConn' = [xConn EXCEPT !.open = FALSE]
            /\ xRet' = [conn |-> FALSE, err |-> xErr]
       ELSE /\ xRet' = [conn |-> TRUE, err |-> NilErr]
            /\ UNCHANGED xConn
    /\ xPc' = "done"
    /\ UNCHANGED <<xMethod, xAddress, xProxyAddr, xWrites, xErr>>
    /\ UNCHANGED nonProxyVars

NextProxy ==
    \/ \E method \in ProxyMethods, address \in TargetAddresses, proxyAddr \in ProxyAddresses :
            ProxyBegin(method, address, proxyAddr)
    \/ \E ok \in BOOLEAN : ProxyDial(ok)
    \/ \E ok \in BOOLEAN : ProxyWrite(ok)
    \/ ProxyReturn

SpecProxy == Init /\ [][NextProxy]_vars

\* ---------------------------------------- Psiphon DialContext: release
\* the caller closes the connection DialContext returned: an SSH channel,
\* whose Close ends the channel and leaves the SSH client and the connection
\* under it as they are; DialContext kept no reference to either
ProxyConnClose ==
    /\ dPc = "done"
    /\ dErr = NilErr
    /\ ~dProxyClosed
    /\ dProxyClosed' = TRUE
    /\ UNCHANGED dOutboundClosed
    /\ UNCHANGED nonReleaseVars

\* Outbound.Close(): return nil
OutboundClose ==
    /\ ~dOutboundClosed
    /\ dOutboundClosed' = TRUE
    /\ UNCHANGED dProxyClosed
    /\ UNCHANGED nonReleaseVars

NextDialClose ==
    \/ NextDial
    \/ ProxyConnClose
    \/ OutboundClose

SpecDialClose == Init /\ [][NextDialClose]_vars

\* ---------------------------------------------------------------- OpenVPN
\* Route(ctx, packet): enters connectAndRoute
OvpnRouteBegin(t) ==
    /\ ~oCrashed /\ oPc[t] = "idle" /\ oCalls < MaxOvpnCalls
    /\ oPc' = [oPc EXCEPT ![t] = "r_check"]
    /\ oLocal' = [oLocal EXCEPT ![t] = NilPtr]
    /\ oRet' = [oRet EXCEPT ![t] = "none"]
    /\ oCalls' = oCalls + 1
    /\ oQuiet' = FALSE
    /\ UNCHANGED <<oConnection, oConns, oCloses, oCrashed>>
    /\ UNCHANGED nonOvpnVars

\* if o.connection == nil
OvpnRouteCheck(t) ==
    /\ ~oCrashed /\ oPc[t] = "r_check"
    /\ oPc' = [oPc EXCEPT ![t] = IF oConnection.tab THEN "r_write" ELSE "r_create"]
    /\ UNCHANGED <<oConnection, oConns, oLocal, oRet, oCalls, oCloses, oQuiet, oCrashed>>
    /\ UNCHANGED nonOvpnVars

\* createConnection: net.Dial, then performHandshake, which always returns nil
OvpnRouteCreate(t, ok) ==
    /\ ~oCrashed /\ oPc[t] = "r_create"
    /\ IF ok
       THEN /\ oConns' = Append(oConns, [open |-> TRUE])
            /\ oLocal' = [oLocal EXCEPT ![t] = Len(oConns) + 1]
            /\ oPc' = [oPc EXCEPT ![t] = "r_tab"]
            /\ UNCHANGED oRet
       ELSE /\ oRet' = [oRet EXCEPT ![t] = "failed to connect to OpenVPN server"]
            /\ oPc' = [oPc EXCEPT ![t] = "idle"]
            /\ UNCHANGED <<oConns, oLocal>>
    /\ UNCHANGED <<oConnection, oCalls, oCloses, oQuiet, oCrashed>>
    /\ UNCHANGED nonOvpnVars

\* o.connection = conn, an unsynchronised store of a two-word interface
\* value: the type word first
OvpnAssignTab(t) ==
    /\ ~oCrashed /\ oPc[t] = "r_tab"
    /\ oConnection' = [oConnection EXCEPT !.tab = TRUE]
    /\ oPc' = [oPc EXCEPT ![t] = "r_data"]
    /\ UNCHANGED <<oConns, oLocal, oRet, oCalls, oCloses, oQuiet, oCrashed>>
    /\ UNCHANGED nonOvpnVars

\* the data word second
OvpnAssignData(t) ==
    /\ ~oCrashed /\ oPc[t] = "r_data"
    /\ oConnection' = [oConnection EXCEPT !.data = oLocal[t]]
    /\ oPc' = [oPc EXCEPT ![t] = "r_write"]
    /\ UNCHANGED <<oConns, oLocal, oRet, oCalls, oCloses, oQuiet, oCrashed>>
    /\ UNCHANGED nonOvpnVars

\* _, err := o.connection.Write(packet.Data()); return err
OvpnRouteWrite(t, ok) ==
    /\ ~oCrashed /\ oPc[t] = "r_write"
    /\ IF oConnection.data = NilPtr
       THEN /\ ok
            /\ oCrashed' = TRUE
            /\ oPc' = [oPc EXCEPT ![t] = "panic"]
            /\ UNCHANGED oRet
       ELSE /\ oPc' = [oPc EXCEPT ![t] = "idle"]
            /\ oRet' = [oRet EXCEPT ![t] =
                          IF ~oConns[oConnection.data].open
                          THEN "use of closed network connection"
                          ELSE IF ok THEN NilErr ELSE "write error"]
            /\ ok \/ oConns[oConnection.data].open
            /\ UNCHANGED oCrashed
    /\ UNCHANGED <<oConnection, oConns, oLocal, oCalls, oCloses, oQuiet>>
    /\ UNCHANGED nonOvpnVars

\* Close() is called
OvpnCloseBegin(t) ==
    /\ ~oCrashed /\ oPc[t] = "idle" /\ oCalls < MaxOvpnCalls
    /\ oPc' = [oPc EXCEPT ![t] = "c_check"]
    /\ oRet' = [oRet EXCEPT ![t] = "none"]
    /\ oCalls' = oCalls + 1
    /\ oQuiet' = \A u \in Threads : oPc[u] = "idle"
    /\ UNCHANGED <<oConnection, oConns, oLocal, oCloses, oCrashed>>
    /\ UNCHANGED nonOvpnVars

\* if o.connection != nil ... else return nil
OvpnCloseCheck(t) ==
    /\ ~oCrashed /\ oPc[t] = "c_check"
    /\ IF oConnection.tab
       THEN /\ oPc' = [oPc EXCEPT ![t] = "c_close"]
            /\ UNCHANGED <<oRet, oCloses>>
       ELSE /\ oPc' = [oPc EXCEPT ![t] = "idle"]
            /\ oRet' = [oRet EXCEPT ![t] = NilErr]
            /\ oCloses' = oCloses + 1
    /\ UNCHANGED <<oConnection, oConns, oLocal, oCalls, oQuiet, oCrashed>>
    /\ UNCHANGED nonOvpnVars

\* return o.connection.Close()
OvpnCloseConn(t) ==
    /\ ~oCrashed /\ oPc[t] = "c_close"
    /\ IF oConnection.data = NilPtr
       THEN /\ oCrashed' = TRUE
            /\ oPc' = [oPc EXCEPT ![t] = "panic"]
            /\ UNCHANGED <<oConns, oRet, oCloses>>
       ELSE /\ oConns' = [oConns EXCEPT ![oConnection.data].open = FALSE]
            /\ oRet' = [oRet EXCEPT ![t] = IF oConns[oConnection.data].open THEN NilErr
                                           ELSE "use of closed network connection"]
            /\ oPc' = [oPc EXCEPT ![t] = "idle"]
            /\ oCloses' = oCloses + 1
            /\ UNCHANGED oCrashed
    /\ UNCHANGED <<oConnection, oLocal, oCalls, oQuiet>>
    /\ UNCHANGED nonOvpnVars

NextOvpn ==
    \/ \E t \in Threads : OvpnRouteBegin(t)
    \/ \E t \in Threads : OvpnRouteCheck(t)
    \/ \E t \in Threads, ok \in BOOLEAN : OvpnRouteCreate(t, ok)
    \/ \E t \in Threads : OvpnAssignTab(t)
    \/ \E t \in Threads : OvpnAssignData(t)
    \/ \E t \in Threads, ok \in BOOLEAN : OvpnRouteWrite(t, ok)
    \/ \E t \in Threads : OvpnCloseBegin(t)
    \/ \E t \in Threads : OvpnCloseCheck(t)
    \/ \E t \in Threads : OvpnCloseConn(t)

SpecOvpn == Init /\ [][NextOvpn]_vars

\* ------------------------------------------------------- shared Connection
\* time passes
SharedTick ==
    /\ kNow < MaxClock
    /\ kNow' = kNow + 1
    /\ UNCHANGED <<kLastActivity, kPc, kSample, kThreshold, kSeenDone, kDone, kIdle, kCalls>>
    /\ UNCHANGED nonSharedVars

\* Read(b) or Write(b): n, err = c.Conn.Read(b) (or Write); the call returns
\* at once unless err == nil && n > 0
SharedIo(t, r) ==
    /\ kPc[t] = "idle" /\ kCalls < MaxSharedCalls
    /\ kCalls' = kCalls + 1
    /\ kPc' = [kPc EXCEPT ![t] = IF r.err = NilErr /\ r.n > 0 THEN "now" ELSE "idle"]
    /\ UNCHANGED <<kNow, kLastActivity, kSample, kThreshold, kSeenDone, kDone, kIdle>>
    /\ UNCHANGED nonSharedVars

\* time.Now() is evaluated
SharedSample(t) ==
    /\ kPc[t] = "now"
    /\ kSample' = [kSample EXCEPT ![t] = kNow]
    /\ kPc' = [kPc EXCEPT ![t] = "store"]
    /\ UNCHANGED <<kNow, kLastActivity, kThreshold, kSeenDone, kDone, kIdle, kCalls>>
    /\ UNCHANGED nonSharedVars

\* c.lastActivity = <the sample>, with no lock held; the call returns
SharedStore(t) ==
    /\ kPc[t] = "store"
    /\ kLastActivity' = kSample[t]
    /\ kDone' = IF kSample[t] > kDone THEN kSample[t] ELSE kDone
    /\ kPc' = [kPc EXCEPT ![t] = "idle"]
    /\ UNCHANGED <<kNow, kSample, kThreshold, kSeenDone, kIdle, kCalls>>
    /\ UNCHANGED nonSharedVars

\* IsIdle(duration): c.lastActivity is loaded as the argument of time.Since
SharedIdleLoad(t, threshold) ==
    /\ kPc[t] = "idle" /\ kCalls < MaxSharedCalls
    /\ kCalls' = kCalls + 1
    /\ kSample' = [kSample EXCEPT ![t] = kLastActivity]
    /\ kThreshold' = [kThreshold EXCEPT ![t] = threshold]
    /\ kSeenDone' = [kSeenDone EXCEPT ![t] = kDone]
    /\ kPc' = [kPc EXCEPT ![t] = "since"]
    /\ UNCHANGED <<kNow, kLastActivity, kDone, kIdle>>
    /\ UNCHANGED nonSharedVars

\* time.Since(...) > duration
SharedIdleSince(t) ==
    /\ kPc[t] = "since"
    /\ kIdle' = [threshold |-> kThreshold[t],
                 result |-> (kNow - kSample[t] > kThreshold[t]),
                 at |-> kNow,
                 done |-> kSeenDone[t]]
    /\ kPc' = [kPc EXCEPT ![t] = "idle"]
    /\ UNCHANGED <<kNow, kLastActivity, kSample, kThreshold, kSeenDone, kDone, kCalls>>
    /\ UNCHANGED nonSharedVars

NextShared ==
    \/ SharedTick
    \/ \E t \in Threads, r \in StreamResults : SharedIo(t, r)
    \/ \E t \in Threads : SharedSample(t)
    \/ \E t \in Threads : SharedStore(t)
    \/ \E t \in Threads, threshold \in Thresholds : SharedIdleLoad(t, threshold)
    \/ \E t \in Threads : SharedIdleSince(t)

SpecShared == Init /\ [][NextShared]_vars

\* ------------------------------------------------------------------ claims
Transports == DOMAIN conns

\* the error the lifecycle contract names for calls on a closed outbound
ErrClosed == "outbound closed"

\* C1: Route calls that race on an outbound with no connection cause one dial
\* and one handshake in total: as long as no establishment attempt has failed,
\* net.Dial has been called at most once and the handshake at most once.
C1_OneDialOneHandshake ==
    failedErr = NilErr => (dialCalls <= 1 /\ hsCalls <= 1)

\* C2: every Route call writes to one single stream instance (the cached
\* connection is assigned once and never replaced): at most one transport
\* ever receives a Route write.
C2_SingleSharedStream ==
    Cardinality({c \in Transports : conns[c].attempts > 0}) <= 1

\* C3: Failed is terminal: once a Route call has returned an establishment
\* error, no step dials or handshakes again and every Route call that returns
\* returns that stored error.
C3_FailedIsTerminal ==
    [][failedErr # NilErr =>
          /\ dialCalls' = dialCalls
          /\ hsCalls' = hsCalls
          /\ \A t \in Threads :
                (op[t] = "Route" /\ pc[t] # "idle" /\ pc'[t] = "idle") => ret'[t] = failedErr
      ]_vars

\* C4: Closed is terminal: a Route call begun after a Close has returned
\* neither dials nor writes, and returns ErrClosed.
C4_ClosedIsTerminal ==
    \A t \in Threads :
        (op[t] = "Route" /\ afterClose[t]) =>
            /\ pc[t] \notin {"r_hs", "r_tab", "r_data"}
            /\ pc[t] = "idle" => ret[t] = ErrClosed

\* C5: Close is idempotent: every Close after the first returns no error, and
\* no transport has Close called on it twice.
C5_CloseIdempotent ==
    /\ \A i \in 2..Len(closeRets) : closeRets[i] = NilErr
    /\ \A c \in Transports : conns[c].closes <= 1

\* C6: when a Close returns while a Route call is dialing or handshaking, then
\* once that Route call has returned too, the outbound caches no connection
\* and the transport the Route call dialed is closed.
C6_CloseDuringConnect ==
    \A t \in Threads :
        (op[t] = "Route" /\ raced[t] /\ pc[t] = "idle") =>
            /\ connection = NilConnection
            /\ lconn[t] # NilPtr => ~conns[lconn[t]].open

\* C7: dial, then handshake, then data: every handshake call was made on a
\* transport a successful dial returned, one call per transport, and a Route
\* write is only ever attempted on a transport whose handshake succeeded; a
\* transport closed on a failed handshake is never cached.
C7_DialHandshakeWrite ==
    /\ hsCalls = Cardinality({c \in Transports : conns[c].hs # "none"})
    /\ \A t \in Threads : pc[t] = "r_hs" => (lconn[t] \in Transports /\ conns[lconn[t]].hs = "none")
    /\ \A c \in Transports : conns[c].attempts > 0 => conns[c].hs = "ok"
    /\ connection.data # NilPtr => conns[connection.data].hs = "ok"

C7_Witness ==
    \E c \in Transports : conns[c].hs = "ok" /\ Len(conns[c].payload) > 0

\* C8: construction performs no network I/O: as long as no Route call has
\* begun, nothing was dialed and no connection is cached, whatever the
\* registered id and the options were.
C8_ConstructionDialsNothing ==
    routeCalls = 0 => (dialCalls = 0 /\ conns = <<>> /\ connection = NilConnection)

C8_Witness ==
    built = "ok" /\ routeCalls = 0 /\ Len(closeRets) > 0

\* C9: with MaxAttempts = k >= 1 and an operation that fails every time, Do
\* calls the operation exactly k times and returns the failure; while it runs
\* it never exceeds k calls.
C9_ExactlyKAttempts ==
    retry.MaxAttempts >= 1 =>
        /\ invoked <= retry.MaxAttempts
        /\ (rpc = "done" /\ failures = invoked) =>
               (invoked = retry.MaxAttempts /\ rResult = RetryFailed)

C9_Witness ==
    rpc = "done" /\ retry.MaxAttempts = 3 /\ failures = 3 /\ invoked = 3

C11_ErrorOnlyAfterRetryCountAttempts ==
    (psPc = "idle" /\ psRet \in {"dial error", "handshake error"})
        => psAttempts = psConfig.RetryCount

DialAttempted == bRaw.dialed \/ bRet = "dial error"

\* C13: no dial is attempted with an empty server host or a port outside
\* 1..65535: either construction rejects the configuration or the address
\* dialed has a non-empty host and a port in range.
C13_DialedAddressIsValid ==
    DialAttempted => (bRaw.host # "" /\ bRaw.port \in 1..65535)

\* the errors with which a connection path reports an option it requires
MissingFieldErrors ==
    {"license key required for WARP+", "team ID required for team mode",
     "required option missing"}

\* C14: a configuration lacking a field its protocol requires is rejected by
\* the constructor; the missing field is never first detected during a later
\* Route call.
C14_MissingFieldNeverFoundByRoute == bRet \notin MissingFieldErrors

\* the port the source names for a protocol id, where it names one: the
\* constructor default of the family's base protocol and the ports written
\* into createIKEv2Connection, createSSTPConnection, createPPTPConnection and
\* createSoftEtherConnection; any valid port where the source names none
WellKnownPorts(family, id) ==
    CASE family = "warp"    -> {DefaultPort}
      [] family = "psiphon" -> {PsDefaultPort}
      [] family = "legacy" /\ id \in {"l2tp", "l2tp-ipsec"}   -> {LegacyDefaultPort}
      [] family = "legacy" /\ id \in {"ikev2", "ikev2-ipsec"} -> {500}
      [] family = "legacy" /\ id = "sstp"                     -> {443}
      [] family = "legacy" /\ id = "pptp"                     -> {1723}
      [] family = "legacy" /\ id = "softether"                -> {992}
      [] family = "experimental" /\ id = "masque"             -> {MASQUEDefaultPort}
      [] OTHER -> 1..65535

\* the outbound was constructed without error
Bound == bPc # "new" /\ bErr = NilErr

\* C15: after construction an unset (zero) port equals the protocol's
\* well-known port, and every port and server the caller set explicitly is
\* preserved unchanged.
C15_DefaultsExactlyOnUnsetFields ==
    Bound =>
        /\ bOptions.Port = 0 => bConfig.Port \in WellKnownPorts(bFamily, bId)
        /\ bOptions.Port # 0 => bConfig.Port = bOptions.Port
        /\ bOptions.Server # "" => bConfig.Server = bOptions.Server

\* the connection strategy a registered id names; ids that name a whole
\* family ("warp", "warp-tls", "psiphon", "openvpn") name no single strategy
IdStrategy(family, id) ==
    CASE id = "warp-plus" -> "warp+"
      [] family = "psiphon" /\ id # "psiphon" ->
            (CASE id = "psiphon-ssh"     -> "ssh"
               [] id = "psiphon-quic-go" -> "quic-go"
               [] id = "psiphon-meek"    -> "meek"
               [] id = "psiphon-obfs3"   -> "obfs3")
      [] family = "ssh" ->
            (CASE id = "ssh-direct"            -> "direct"
               [] id = "ssh-proxy"             -> "proxy"
               [] id = "ssh-payload"           -> "payload"
               [] id = "ssh-proxy-payload"     -> "proxy-payload"
               [] id = "ssh-tls"               -> "tls"
               [] id = "ssh-tls-proxy"         -> "tls-proxy"
               [] id = "ssh-tls-payload"       -> "tls-payload"
               [] id = "ssh-tls-proxy-payload" -> "tls-proxy-payload"
               [] id = "ssh-dnstt"             -> "dnstt")
      [] family = "dns" ->
            (CASE id = "dns-doh"      -> "doh"
               [] id = "dns-dot"      -> "dot"
               [] id = "dns-dnscrypt" -> "dnscrypt"
               [] id = "dns-doq"      -> "doq"
               [] id = "dns-slowdns"  -> "slowdns"
               [] id = "dns-tcp"      -> "tcp"
               [] id = "dns-udp"      -> "udp")
      [] family \in {"obfs", "legacy", "experimental"} -> id
      [] OTHER -> ""

\* the first Route call went through the dispatch switch
Dispatched == bPc = "stages" \/ bRet # "none"

\* C16: an outbound built by the constructor registered under id X connects
\* with the strategy of X, whatever the protocol/method field of the options.
C16_StrategyFollowsRegisteredId ==
    (Dispatched /\ IdStrategy(bFamily, bId) # "")
        => StrategyOf(bFamily, bConfig) = IdStrategy(bFamily, bId)

\* the identifier the dispatch switch of the family looks at, and the
\* identifiers its cases name
Selector == IF bFamily = "warp" THEN bConfig.Mode ELSE bConfig.Protocol

KnownIdentifiers(family) ==
    CASE family = "warp"    -> {"wireguard", "warp+", "team"}
      [] family = "psiphon" -> {"ssh", "meek", "fronting-meek", "quic-go", "obfs3"}
      [] OTHER              -> KnownSelectors(family)

\* C17: dispatch on an identifier that is not a known one fails with an
\* unknown-protocol error and dials nothing; no family falls back to another
\* protocol's connection strategy.
C17_UnknownIdentifierIsRejected ==
    (Dispatched /\ Selector \notin KnownIdentifiers(bFamily))
        => (bRet = UnsupportedProtocol /\ ~DialAttempted)

Occurrences(c, p) ==
    Cardinality({i \in DOMAIN conns[c].payload : conns[c].payload[i] = p})

\* C19: Route forwards without buffering or transformation: the bytes written
\* to the outbound's stream on behalf of Route are exactly the data of the
\* successful Route calls, each written once, none dropped or duplicated.
C19_RouteBytesOnTheStream ==
    \A t \in Threads :
        (pc[t] = "idle" /\ op[t] = "Route" /\ ret[t] = NilErr /\ connection.data # NilPtr)
            => Occurrences(connection.data, packet[t]) = 1

\* the errors a Write on the cached connection returns
WriteErrors == {"write error", "use of closed network connection"}

\* every write attempt Route has made, over all transports
WriteAttempts(cs) ==
    LET Sum[i \in 0..Len(cs)] == IF i = 0 THEN 0 ELSE Sum[i - 1] + cs[i].attempts
    IN  Sum[Len(cs)]

\* C20: a write error on an established connection is not retried: the
\* failing Route call makes exactly one write attempt and returns that error,
\* it dials nothing and leaves the cached connection in place, and a later
\* Route call that finds the connection cached does not dial either.
C20_WriteErrorNotRetried ==
    [][\A t \in Threads :
          /\ (pc[t] = "r_write" /\ pc'[t] = "idle" /\ ret'[t] \in WriteErrors)
                => /\ connection' = connection
                   /\ dialCalls' = dialCalls
                   /\ Len(conns') = Len(conns)
                   /\ WriteAttempts(conns') = WriteAttempts(conns) + 1
          /\ (pc[t] = "r_check" /\ connection # NilConnection)
                => pc'[t] \notin {"r_create", "r_hs", "r_tab", "r_data"}]_vars

\* a Route call returned a write error, and a later write was attempted on
\* the same cached connection
C20_Witness ==
    \E t \in Threads :
        /\ pc[t] = "idle"
        /\ ret[t] = "write error"
        /\ connection.data # NilPtr
        /\ conns[connection.data].open
        /\ conns[connection.data].attempts >= 2
        /\ dialCalls = 1

\* C30: an IKEv2 or IKEv2/IPsec outbound built from options without a port
\* dials port 500, and one built with a non-zero port dials that port.
C30_IKEv2DialsPort500 ==
    (DialAttempted /\ bFamily = "legacy" /\ bId \in {"ikev2", "ikev2-ipsec"})
        => bRaw.port = IF GDecode(bOptions).config.Port = 0 THEN 500
                       ELSE GDecode(bOptions).config.Port

C22_ByteCountersMonotonic ==
    [][~Less64(bytesSent', bytesSent) /\ ~Less64(bytesReceived', bytesReceived)]_vars

\* the value a byte counter has after the logged calls of one method ran one
\* after the other
SumOf(log, method) ==
    LET Sum[i \in 0..Len(log)] ==
            IF i = 0 THEN Zero64
            ELSE IF log[i].op = method THEN Add64(Sum[i - 1], ToUint64(log[i].n))
            ELSE Sum[i - 1]
    IN  Sum[Len(log)]

\* the value the gauge has after the logged calls ran one after the other
GaugeOf(log) ==
    LET G[i \in 0..Len(log)] ==
            IF i = 0 THEN 0
            ELSE IF log[i].op = "IncConnections" THEN G[i - 1] + 1
            ELSE IF log[i].op = "DecConnections" /\ G[i - 1] > 0 THEN G[i - 1] - 1
            ELSE G[i - 1]
    IN  G[Len(log)]

\* C23: no Metrics update is lost under concurrency: in every interleaving
\* each byte counter is the sum (on uint64) of all the amounts whose update
\* was stored, the gauge is what the stored increments and decrements give
\* when applied one after the other in the order in which they took the
\* mutex, and once the callers have returned every call's update is stored.
C23_NoUpdateLost ==
    /\ bytesSent = SumOf(mLog, "AddBytesSent")
    /\ bytesReceived = SumOf(mLog, "AddBytesReceived")
    /\ connections = GaugeOf(mLog)
    /\ (\A t \in Threads : mPc[t] = "idle") => Len(mLog) = mCalls

\* two callers of the same method meet at the mutex: one has stored its
\* update and still holds the lock, the other waits to take it
C23_Witness ==
    \E t, u \in Threads :
        /\ t # u
        /\ mPc[t] = "lock"
        /\ mPc[u] = "unlock"
        /\ mu = u
        /\ mCall[t].op = mCall[u].op
        /\ mLog = <<mCall[u]>>

\* a Route call has returned nil and no Close call has been made: the
\* outbound has reached Ready and has not been closed
OutboundReady ==
    /\ closeCalls = 0
    /\ \E t \in Threads : op[t] = "Route" /\ pc[t] = "idle" /\ ret[t] = NilErr

\* C21: the live-connection gauge counts the outbounds that have reached
\* Ready and have not been closed: it is 1 once the outbound's first Route
\* call has succeeded, and 0 while no outbound has been built.
C21_GaugeCountsReadyOutbounds ==
    /\ OutboundReady => connections = 1
    /\ built = "no" => connections = 0

\* C24: lastActivity changes only on a successful non-empty operation: a
\* Read or Write whose stream returned an error or zero bytes leaves it
\* unchanged, one that returned n > 0 and no error sets it to the current
\* time, no other call on the wrapper changes it, and the count and error
\* the wrapper returns are the ones the stream returned.
C24_ActivityOnlyOnSuccess ==
    [][cBuilt =>
          /\ cIo' # cIo =>
                /\ cRet'.n = cUnder'.n /\ cRet'.err = cUnder'.err
                /\ lastActivity' = IF cUnder'.err = NilErr /\ cUnder'.n > 0
                                   THEN now ELSE lastActivity
          /\ cIo' = cIo => lastActivity' = lastActivity
      ]_vars

\* a Read returned bytes together with an error, later than the last
\* activity, and lastActivity kept its earlier value
C24_Witness ==
    /\ cRet.op = "Read" /\ cRet.n > 0 /\ cRet.err # NilErr
    /\ cIo >= 2
    /\ lastActivity > 0
    /\ lastActivity < cRet.at

\* C25: IsIdle(threshold) is true exactly when now - lastActivity is
\* strictly greater than threshold; in particular, right after a successful
\* non-empty write it is false for every threshold >= 0 and stays false
\* until more than threshold time has passed since that write.
C25_IdleIffStrictlyOlder ==
    [][cIdleCalls' # cIdleCalls =>
          /\ cIdle'.result <=> (now - lastActivity > cIdle'.threshold)
          /\ (/\ cRet.op = "Write" /\ cRet.err = NilErr /\ cRet.n > 0
              /\ cIdle'.threshold >= 0
              /\ now - cRet.at <= cIdle'.threshold) => ~cIdle'.result
      ]_vars

\* IsIdle was asked exactly threshold ticks after a successful non-empty
\* write and answered that the wrapper is not idle
C25_Witness ==
    /\ cIdleCalls > 0
    /\ cRet.op = "Write" /\ cRet.err = NilErr /\ cRet.n > 0
    /\ cIdle.threshold > 0
    /\ now - cRet.at = cIdle.threshold
    /\ lastActivity = cRet.at
    /\ ~cIdle.result

\* C26: read and write deadlines are independent: ApplyReadTimeout changes
\* the read deadline only and ApplyWriteTimeout the write deadline only, a
\* timeout of zero leaves its deadline untouched, and no Read or Write on
\* the established connection times out on the deadline that ApplyToConn set
\* for the connect phase.
C26_DeadlinesIndependent ==
    [][tCalls' # tCalls =>
          /\ tLast' = "ApplyReadTimeout" =>
                /\ writeDeadline' = writeDeadline
                /\ timeouts.Read = 0 => readDeadline' = readDeadline
          /\ tLast' = "ApplyWriteTimeout" =>
                /\ readDeadline' = readDeadline
                /\ timeouts.Write = 0 => writeDeadline' = writeDeadline
          /\ tLast' = "Read" => ~(tTimedOut' /\ readDeadline.by = "ApplyToConn")
          /\ tLast' = "Write" => ~(tTimedOut' /\ writeDeadline.by = "ApplyToConn")
      ]_vars

\* C28: DialContext runs its steps in the order TCP dial, TLS handshake (with
\* UseTLS only), HTTP CONNECT handshake, SSH session, target dial; a step
\* runs only if every earlier step succeeded; when a step fails the call
\* returns an error, the TCP connection it opened is closed, and no later
\* step runs.
C28_StepsInOrderCloseOnFailure ==
    /\ Len(dSteps) <= Len(DialOrder(dUseTLS))
    /\ \A i \in 1..Len(dSteps) :
          /\ dSteps[i].step = DialOrder(dUseTLS)[i]
          /\ i < Len(dSteps) => dSteps[i].ok
    /\ (Len(dSteps) > 0 /\ ~dSteps[Len(dSteps)].ok) =>
          /\ dPc = "done"
          /\ dErr \notin {NilErr, "none"}
          /\ ~dConn.open
    /\ (dPc = "done" /\ dErr = NilErr) =>
          /\ Len(dSteps) = Len(DialOrder(dUseTLS))
          /\ dConn.open

\* with TLS configured, the SSH session failed after TCP dial, TLS and HTTP
\* handshake succeeded: the call has returned the error with the connection
\* closed and the target never dialed
C28_Witness ==
    /\ dPc = "done"
    /\ dUseTLS
    /\ Len(dSteps) = 4
    /\ dSteps[4] = [step |-> "ssh", ok |-> FALSE]
    /\ dConn.opened /\ dConn.tls /\ ~dConn.open
    /\ dErr = "SSH connection failed"

\* C29: the HTTP handshake succeeds only when the server answered the
\* CONNECT request with status 200: whenever the handshake step succeeded,
\* the status code of the answer is 200.
C29_SuccessOnlyOnStatus200 ==
    \A i \in 1..Len(dSteps) :
        (dSteps[i].step = "http" /\ dSteps[i].ok) => dAnswer.code = <<"2", "0", "0">>

\* C31: Do stops at the first success: the invocation that succeeds is the
\* last one, Do returns nil right after it, it was preceded by one sleep per
\* failed invocation (j - 1 sleeps for the j-th invocation, j <= MaxAttempts),
\* and once Do has returned the operation is not invoked again.
C31_StopsAtFirstSuccess ==
    [][/\ (invoked' = invoked + 1 /\ failures' = failures) =>
              /\ rpc' = "done"
              /\ rResult' = NilErr
              /\ invoked' <= retry.MaxAttempts
              /\ failures = invoked
              /\ Len(slept') = invoked' - 1
       /\ rpc = "done" => (invoked' = invoked /\ slept' = slept)
      ]_vars

\* the operation failed twice and succeeded on its third invocation, and Do
\* has returned nil
C31_Witness ==
    /\ rpc = "done"
    /\ rResult = NilErr
    /\ invoked = 3
    /\ failures = 2
    /\ Len(slept) = 2

\* C32: Do never returns a failure without having run the operation: for
\* every MaxAttempts, zero and negative included, a failure is returned only
\* after at least one invocation.
C32_FailureOnlyAfterAnInvocation ==
    (rpc = "done" /\ rResult # NilErr) => invoked >= 1

\* how many calls of a method the log holds
CountOf(log, method) == Cardinality({i \in 1..Len(log) : log[i].op = method})

\* C35: the live-connection gauge is never negative, in any interleaving of
\* IncConnections and DecConnections, and once equally many increments and
\* decrements have run, in whatever order, it is 0 again.
C35_GaugeBalanced ==
    /\ connections >= 0
    /\ ((\A t \in Threads : mPc[t] = "idle")
        /\ CountOf(mLog, "IncConnections") = CountOf(mLog, "DecConnections"))
           => connections = 0

\* the file exists, is readable, parses as a JSON configuration and lists at
\* least one inbound and at least one outbound
Acceptable(file) ==
    /\ file.stat = "ok"
    /\ file.readable
    /\ file.content.kind = "object"
    /\ file.content.inbounds.shape = "list" /\ file.content.inbounds.n >= 1
    /\ file.content.outbounds.shape = "list" /\ file.content.outbounds.n >= 1

\* C39: Load returns options and a nil error exactly when the file exists,
\* is readable, parses as JSON and has at least one inbound and at least one
\* outbound; in every other case it returns nil options and an error.
C39_AcceptsOnlyCompleteConfigurations ==
    lPc = "done" =>
        /\ lErr = NilErr <=> Acceptable(lFile)
        /\ lErr = NilErr => (~lOptions.isNil /\ lOptions.Inbounds >= 1 /\ lOptions.Outbounds >= 1)
        /\ lErr # NilErr => lOptions.isNil

\* Load has rejected a readable, well-formed file that lists inbounds and no
\* outbound
C39_Witness ==
    /\ lPc = "done"
    /\ lFile.readable
    /\ lFile.content.kind = "object"
    /\ lFile.content.inbounds = [shape |-> "list", n |-> 1]
    /\ lFile.content.outbounds = [shape |-> "list", n |-> 0]
    /\ lErr = "invalid configuration"
    /\ lOptions.isNil

\* C37: connectViaProxy returns a connection only if every write of the
\* proxy handshake succeeded: for HTTP CONNECT and for SOCKS5 alike, a
\* failed write makes it return an error with the proxy connection closed.
C37_ProxyWriteErrorsReturned ==
    (xPc = "done" /\ \E i \in 1..Len(xWrites) : ~xWrites[i]) =>
        /\ ~xRet.conn
        /\ xRet.err # NilErr
        /\ ~xConn.open

\* C38: closing the connection a successful DialContext returned, and
\* closing the outbound, releases what the call opened: once both are
\* closed, the TCP/TLS connection (and with it the SSH client session that
\* runs on it) is closed.
C38_CloseReleasesEverything ==
    (dPc = "done" /\ dErr = NilErr /\ dProxyClosed /\ dOutboundClosed) => ~dConn.open

\* C34: a Route call that fails to establish a connection leaves the cached
\* connection as it was and writes nothing, and the connection field only
\* ever holds a transport whose dial and handshake succeeded, never one that
\* was closed on a failed handshake.
C34_FailedEstablishmentStoresNothing ==
    [][/\ \A t \in Threads :
             (pc[t] \in {"r_create", "r_hs"} /\ pc'[t] = "idle") =>
                 /\ ret'[t] # NilErr
                 /\ connection' = connection
                 /\ \A c \in DOMAIN conns :
                       /\ conns'[c].attempts = conns[c].attempts
                       /\ conns'[c].payload = conns[c].payload
       /\ connection'.data # NilPtr => conns'[connection'.data].hs = "ok"
      ]_vars

\* a first Route call has failed in the handshake: its transport is closed,
\* nothing was written to it and the connection field is still nil
C34_Witness ==
    \E t \in Threads :
        /\ pc[t] = "idle" /\ op[t] = "Route" /\ ret[t] = "handshake error"
        /\ connection = NilConnection
        /\ Len(conns) = 1
        /\ conns[1].hs = "failed" /\ ~conns[1].open /\ conns[1].attempts = 0

\* C33: every transport the outbound dialed is closed by the time Close
\* returns: when concurrent Route calls have all returned and a Close call
\* made after them has returned, no transport that createConnection dialed
\* is still open.
C33_CloseClosesEveryTransport ==
    (/\ \A t \in Threads : oPc[t] = "idle"
     /\ oCloses = 1
     /\ oQuiet)
        => \A c \in DOMAIN oConns : ~oConns[c].open

\* C36: under concurrent Read and Write calls on one Connection the stored
\* lastActivity never decreases, and IsIdle never answers idle when a
\* successful Read or Write that had returned before the IsIdle call began
\* took its time.Now() no longer ago than the threshold.
C36_LastActivityNeverMovesBackwards ==
    [][/\ kLastActivity' >= kLastActivity
       /\ kIdle'.result =>
             ~(kIdle'.done >= 0 /\ kIdle'.at - kIdle'.done <= kIdle'.threshold)
      ]_vars

====
